---------------------------- MODULE Spec2Model ----------------------------
(***************************************************************************)
(* Model of the graph layout engine of worker_distributed_layering_rust:   *)
(* the incremental layering state machine GlobalLayerState, and (further   *)
(* down) the one-shot layout pipeline and the batch driver.                *)
(*                                                                         *)
(* Vertex ids are strings in the program.  Here an id is an integer:       *)
(* 1..NumVertices are distinct non-blank ids, 0 is the empty string and    *)
(* -1 is a whitespace-only string; the order of the integers stands for    *)
(* the lexicographic order of the strings.                                 *)
(***************************************************************************)
EXTENDS Integers, Sequences, FiniteSets, TLC

(* ------------------------------ bounds --------------------------------- *)
NumVertices == 4
MaxBatchLen == 2
MaxBatches == 2
MaxUpdateIterations == 3
LayerBits == 3
DistBits == 2
UsizeBits == 4
NumLayoutVertices == 3
MaxLayoutEdges == 3
MaxDbEdges == 11
MaxBatchSize == 2
NumDbVertices == 4
MaxDbFaults == 1
NumPlaceVertices == 3
MaxPlaceLayer == 2
NumGraphVertices == 4
MaxGraphEdges == 3
MaxTopoBatch == 2
MaxTopoWorkers == 1
MaxPageRows == 2
MaxRowTimeouts == 4
MaxSavePositions == 3
MaxSaveBatchSize == 2
NumBuilderVertices == 3
MaxBuilderCalls == 3
MaxOptPositions == 3
MaxOptIterations == 2
MaxRouteLayer == 3
MaxRouteThreshold == 3
NumMemThreads == 2
MaxMemCalls == 4
MaxMemSize == 2
MemoryLimit == 3

(* ------------------------- program constants --------------------------- *)
MaxIterations == 100
OptMaxIterations == 10
CompactGap == 130
PolylineThreshold == 2
GroupFactor == 10
MaxRetries == 3
MaxParallel == 2
MaxAttempts == 5
F32Exact == 16777216

VARIABLES
  vertex_layers,      \* GlobalLayerState.vertex_layers : id -> i32
  outgoing_edges,     \* GlobalLayerState.outgoing_edges : id -> set of ids
  incoming_edges,     \* GlobalLayerState.incoming_edges : id -> set of ids
  dirty_vertices,     \* GlobalLayerState.dirty_vertices
  max_layer,          \* GlobalLayerState.max_layer
  total_vertices,     \* GlobalLayerState.total_vertices
  total_edges,        \* GlobalLayerState.total_edges
  update_iterations,  \* GlobalLayerState.update_iterations
  pc,                 \* position of the owner: "idle", "loop" (inside the
                      \* while loop of propagate_layers), "panicked"
  caller,             \* who called propagate_layers: "none", "direct", "puc"
  queue,              \* the local VecDeque of propagate_layers
  updated_count,      \* the local updated_count of propagate_layers
  iteration,          \* the local iteration of propagate_until_convergence
  total_updates,      \* the local total_updates of propagate_until_convergence
  last_updates,       \* value returned by the last propagate_layers (-1: none)
  passes,             \* propagate_layers calls made by the current or last
                      \* propagate_until_convergence
  nbatches,           \* number of add_edges_batch calls made so far
  converged,          \* propagate_until_convergence has returned since the
                      \* last add_edges_batch
  propagated,         \* a propagate_layers call has returned since the last
                      \* add_edges_batch
  overflow_checks,    \* the build panics on integer overflow (debug profile)
                      \* instead of wrapping (release profile)
  layout_pc,          \* stage of HighPerformanceLayoutEngine::compute_layout
  req_edges,          \* the edges argument of compute_layout
  engine_options,     \* the LayoutOptions the engine was created with
  graph,              \* the Graph of build_graph
  topo_order,         \* TopoSortResult.order
  longest_path,       \* the result of find_simd
  layer_map,          \* the result of assign_layers_bfs
  positions,          \* the positions of place_vertices
  edge_paths,         \* the edge paths of place_vertices
  layout_result,      \* the LayoutResult or the error of compute_layout
  batch_pc,           \* position in run_batch_layout
  db_edges,           \* the rows of the edge query of the database
  batch_size,         \* config.neo4j.batch_size
  total_batches,      \* local of run_batch_layout
  batch_num,          \* loop variable of run_batch_layout
  all_edges,          \* local of run_batch_layout
  processed_edges,    \* local of run_batch_layout
  saved,              \* layer, level, x, y stored on the articles
  layouts_run,        \* number of process_edges_batch calls that ran a layout
  save_batch_size,    \* config.neo4j.save_batch_size
  batch_positions,    \* the positions given to the save of the driver
  batch_slices,       \* the tasks of that save: "wait", "ok" or "err"
  db_faults,          \* failed rows and given-up transactions so far
  place_pc,           \* calls of place_all_vertices made: "off", "ready",
                      \* "once", "twice"
  place_map,          \* the contents of the layer map given to the calls
  place_config,       \* the PlacementConfig given to the calls
  place_iter,         \* the iteration order of that HashMap
  place_first,        \* the result of the first call
  place_second,       \* the result of the second call
  place_kind,         \* the map of the second call: "same" (the same
                      \* HashMap), "equal" (another one with equal contents)
  lib_graph,          \* a Graph made by GraphBuilder, given to the calls below
  ts_pc,              \* position in ParallelTopoSort: "off", "new",
                      \* "rejected", "ready", "kahn", "sorted", "validated"
  ts_worker_count,    \* ParallelTopoSort.worker_count
  ts_batch_size,      \* ParallelTopoSort.batch_size
  ts_in_degrees,      \* the in_degrees of kahn_parallel
  ts_queue,           \* the queue of kahn_parallel
  ts_result,          \* the result vector of kahn_parallel
  ts_level_count,     \* the level_count of kahn_parallel
  ts_outcome,         \* what compute_parallel returned: "none", "ok", "err"
  ts_order,           \* TopoSortResult.order
  ts_valid,           \* what validate_result returned: "none", "ok", "err"
  hc_pc,              \* calls of has_cycle and is_dag: "off", "ready"
  hc_has_cycle,       \* what has_cycle returned: "none", "yes", "no"
  hc_is_dag,          \* what is_dag returned: "none", "yes", "no"
  lp_pc,              \* calls on SIMDLongestPath: "off", "ready", "found",
                      \* "validated", "looping" (find_simd never returns)
  lp_simd_enabled,    \* SIMDLongestPath.simd_enabled
  lp_topo_order,      \* the topo_order argument of find_simd
  lp_path,            \* the path that find_simd returned
  lp_valid,           \* what validate_path returned: "none", "ok", "err"
  gb_pc,              \* GraphBuilder: "off", "open", "built"
  gb_vertices,        \* GraphBuilder.vertices
  gb_edges,           \* GraphBuilder.edges (source, target)
  gb_calls,           \* calls of add_edge and add_vertex so far
  gb_last,            \* the last add_edge call: its arguments, its result
                      \* and the builder before it
  srv_pc,             \* GraphLayoutServer::compute_layout: "off", "idle",
                      \* "loading", "querying", "locking", "computing",
                      \* "responded"
  srv_edges,          \* the local edges of compute_layout
  srv_connected,      \* Neo4jClient.connected
  srv_request,        \* LayoutRequest.edges
  srv_response,       \* the LayoutResponse
  ld_pc,              \* load_graph_edges_batch: "off", "attempt" (top of
                      \* the for loop), "rows" (in the inner loop), "ok",
                      \* "err"
  ld_attempt,         \* attempt
  ld_page,            \* the rows of the requested page
  ld_edges,           \* edges
  ld_executes,        \* calls of graph.execute so far
  ld_query_errors,    \* query errors so far
  ld_timeouts,        \* row timeouts so far
  ld_row_error,       \* a row-read error ended the stream
  sv_pc,              \* save_layout_results_with_batch_size: "off", "start",
                      \* "spawning", "joining", "ok", "err", "panic"
  sv_total_positions, \* positions.len()
  sv_batch_size,      \* batch_size
  sv_total_batches,   \* total_batches
  sv_spawned,         \* batches spawned so far (batch_num of the for loop)
  sv_permits,         \* free permits of the semaphore
  sv_tasks,           \* the spawned tasks: state "run" (top of the loop),
                      \* "txn" (transaction begun), "ok", "err"; attempt;
                      \* tries (transactions tried so far)
  sv_joined,          \* handles awaited so far
  opt_pc,             \* optimize_placement calls: "off", "ready", "once",
                      \* "twice"
  opt_config,         \* the OptimizationOptions of the calls
  opt_input,          \* the positions before the first call
  opt_first,          \* the positions after the first call
  opt_second,         \* the positions after the second call
  opt_passes,         \* compact_layout calls made by the last call
  rt_pc,              \* compute_single_edge_path: "off", "ready", "done"
  rt_source,          \* source position
  rt_target,          \* target position
  rt_config,          \* PlacementConfig
  rt_options,         \* EdgeRoutingOptions
  rt_path,            \* the waypoints returned
  mem_on,             \* a MemoryManager is shared by the threads
  current_usage,      \* MemoryManager.current_usage (AtomicUsize)
  mem_pc,             \* per thread: "idle", "add" (allocate before its
                      \* fetch_add), "sub" (deallocate before its
                      \* fetch_sub), "panic"
  mem_size,           \* per thread: the operand of the pending fetch_add or
                      \* fetch_sub
  mem_result,         \* per thread: the result of its last allocate:
                      \* "none", "ok", "err"
  mem_calls,          \* calls of allocate and deallocate made
  bfs_pc,             \* assign_layers_bfs: "off", "ready", "loop", "returned",
                      \* "panic"
  bfs_layer_map,      \* layer_map
  bfs_queue,          \* queue of (vertex id, layer)
  bfs_processed,      \* processed : i32
  bfs_errors,         \* validation_errors; -1 while validate_layer_assignments
                      \* has not run
  fr_pc,              \* kahn_parallel: "off", "ready", "level", "done"
  fr_batch_size,      \* self.batch_size
  fr_in_degrees,      \* the AtomicUsize in-degrees
  fr_level,           \* current_level of process_level_parallel
  fr_todo,            \* per chunk: the fetch_sub calls it has still to make
  fr_local,           \* per chunk: local_next
  fr_merged,          \* per chunk: the closure of the chunk has returned
  fr_next,            \* global_next
  fr_result           \* result of kahn_parallel

glsVars == <<vertex_layers, outgoing_edges, incoming_edges, dirty_vertices,
             max_layer, total_vertices, total_edges, update_iterations,
             pc, caller, queue, updated_count, iteration, total_updates,
             last_updates, passes, nbatches, converged, propagated,
             overflow_checks>>

layoutVars == <<layout_pc, req_edges, engine_options, graph, topo_order,
                longest_path, layer_map, positions, edge_paths, layout_result>>

batchVars == <<batch_pc, db_edges, batch_size, total_batches, batch_num,
               all_edges, processed_edges, saved, layouts_run,
               save_batch_size, batch_positions, batch_slices, db_faults>>

placeVars == <<place_pc, place_map, place_config, place_iter, place_first,
               place_second, place_kind>>

topoVars == <<ts_pc, ts_worker_count, ts_batch_size, ts_in_degrees, ts_queue,
              ts_result, ts_level_count, ts_outcome, ts_order, ts_valid>>

cycleVars == <<hc_pc, hc_has_cycle, hc_is_dag>>

pathVars == <<lp_pc, lp_simd_enabled, lp_topo_order, lp_path, lp_valid>>

builderVars == <<gb_pc, gb_vertices, gb_edges, gb_calls, gb_last>>

bfsVars == <<bfs_pc, bfs_layer_map, bfs_queue, bfs_processed, bfs_errors>>

frontierVars == <<fr_pc, fr_batch_size, fr_in_degrees, fr_level, fr_todo,
                  fr_local, fr_merged, fr_next, fr_result>>

walkVars == <<bfsVars, frontierVars>>

graphVars ==
  <<lib_graph, topoVars, cycleVars, pathVars, builderVars, walkVars>>

serverVars == <<srv_pc, srv_connected, srv_request, srv_response, srv_edges>>

loadVars == <<ld_pc, ld_attempt, ld_page, ld_edges, ld_executes,
              ld_query_errors, ld_timeouts, ld_row_error>>

saveVars == <<sv_pc, sv_total_positions, sv_batch_size, sv_total_batches,
              sv_spawned, sv_permits, sv_tasks, sv_joined>>

optVars == <<opt_pc, opt_config, opt_input, opt_first, opt_second,
             opt_passes>>

routeVars == <<rt_pc, rt_source, rt_target, rt_config, rt_options, rt_path>>

memVars == <<mem_on, current_usage, mem_pc, mem_size, mem_result, mem_calls>>

callVars == <<optVars, routeVars, memVars>>

serviceVars == <<serverVars, loadVars, saveVars, callVars>>

\* The state of the calls made on the parts of the engine on their own, and
\* of the gRPC server and the Neo4j client.
unitVars == <<placeVars, graphVars, serviceVars>>

vars == <<glsVars, layoutVars, batchVars, unitVars>>

(* ------------------------------ helpers -------------------------------- *)
Vertices == 1..NumVertices
Ids == (-1)..NumVertices

\* str::trim on an id: the whitespace-only string becomes the empty string.
Trim(id) == IF id < 0 THEN 0 ELSE id
\* str::is_empty
IsEmpty(id) == id = 0

SetMax(S) == CHOOSE x \in S : \A y \in S : y <= x
SetMin(S) == CHOOSE x \in S : \A y \in S : x <= y

\* All orders in which the elements of a hash set or hash map can be iterated.
RECURSIVE Orders(_)
Orders(S) ==
  IF S = {} THEN {<<>>}
  ELSE UNION {{<<x>> \o q : q \in Orders(S \ {x})} : x \in S}

\* The ascending sequence of a set of ids or numbers.
RECURSIVE SortedSeq(_)
SortedSeq(S) ==
  IF S = {} THEN <<>>
  ELSE LET m == CHOOSE x \in S : \A y \in S : x <= y
       IN <<m>> \o SortedSeq(S \ {m})

\* The sequence of a set of pairs in lexicographic order.
RECURSIVE SortedEdgeSeq(_)
SortedEdgeSeq(E) ==
  IF E = {} THEN <<>>
  ELSE LET m == CHOOSE x \in E :
                  \A y \in E : x[1] < y[1] \/ (x[1] = y[1] /\ x[2] <= y[2])
       IN <<m>> \o SortedEdgeSeq(E \ {m})

RECURSIVE Pow2(_)
Pow2(n) == IF n = 0 THEN 1 ELSE 2 * Pow2(n - 1)

\* i32, scaled to LayerBits bits.
I32Max == Pow2(LayerBits - 1) - 1
I32Min == 0 - Pow2(LayerBits - 1)
\* x + 1 in a build without overflow checks (wrapping).
WrapInc(x) == IF x = I32Max THEN I32Min ELSE x + 1
\* Mutant: the larger value is never taken over.
MaxOf_Keep(a, b) == a

MaxOf(a, b) == IF a >= b THEN a ELSE b
\* usize, scaled to UsizeBits bits; + in a build without overflow checks.
UsizeMax == Pow2(UsizeBits) - 1
UsizeAdd(a, b) == (a + b) % Pow2(UsizeBits)

MapGet(m, k, default) == IF k \in DOMAIN m THEN m[k] ELSE default
MapPut(m, k, v) == [x \in (DOMAIN m) \cup {k} |-> IF x = k THEN v ELSE m[x]]

EmptyMap == [x \in {} |-> 0]

(* ------------------------- GlobalLayerState ---------------------------- *)
\* Mutant: a vertex is first inserted with layer 1.
EnsureVertex_One(layers, v) ==
  IF v \in DOMAIN layers THEN layers ELSE MapPut(layers, v, 1)

\* Mutant: the insert overwrites the layer of a vertex that is already known.
EnsureVertex_Reset(layers, v) == MapPut(layers, v, 0)

\* vertex_layers.insert(v, 0) when v is not yet a key.
EnsureVertex(layers, v) ==
  IF v \in DOMAIN layers THEN layers ELSE MapPut(layers, v, 0)

\* Mutant: new_edges counts an edge that is already stored.
AddOneEdge_CountAll(s, source, target) ==
  IF IsEmpty(Trim(source)) \/ IsEmpty(Trim(target)) \/ source = target
  THEN s
  ELSE LET layers1 == EnsureVertex(EnsureVertex(s.layers, source), target)
           outs == MapGet(s.out, source, {})
           ins == MapGet(s.inc, target, {})
       IN [layers |-> layers1,
           out |-> MapPut(s.out, source, outs \cup {target}),
           inc |-> MapPut(s.inc, target, ins \cup {source}),
           dirty |-> s.dirty \cup {target},
           new_edges |-> s.new_edges + 1]

\* Mutant: the loop of add_edges_batch does not skip self-loops.
AddOneEdge_KeepLoops(s, source, target) ==
  IF IsEmpty(Trim(source)) \/ IsEmpty(Trim(target))
  THEN s
  ELSE LET layers1 == EnsureVertex(EnsureVertex(s.layers, source), target)
           outs == MapGet(s.out, source, {})
           ins == MapGet(s.inc, target, {})
       IN [layers |-> layers1,
           out |-> MapPut(s.out, source, outs \cup {target}),
           inc |-> MapPut(s.inc, target, ins \cup {source}),
           dirty |-> s.dirty \cup {target},
           new_edges |-> IF target \in outs THEN s.new_edges
                         ELSE s.new_edges + 1]

\* The body of the for loop of add_edges_batch for one (source, target).
\* s = [layers, out, inc, dirty, new_edges].
AddOneEdge(s, source, target) ==
  IF IsEmpty(Trim(source)) \/ IsEmpty(Trim(target)) \/ source = target
  THEN s
  ELSE LET layers1 == EnsureVertex(EnsureVertex(s.layers, source), target)
           outs == MapGet(s.out, source, {})
           ins == MapGet(s.inc, target, {})
       IN [layers |-> layers1,
           out |-> MapPut(s.out, source, outs \cup {target}),
           inc |-> MapPut(s.inc, target, ins \cup {source}),
           dirty |-> s.dirty \cup {target},
           new_edges |-> IF target \in outs THEN s.new_edges
                         ELSE s.new_edges + 1]

RECURSIVE AddEdgesLoop(_, _, _)
AddEdgesLoop(s, edges, i) ==
  IF i > Len(edges) THEN s
  ELSE AddEdgesLoop(AddOneEdge(s, edges[i][1], edges[i][2]), edges, i + 1)

\* Mutant: the smallest predecessor layer instead of the largest.
MaxPredLayer_Min(layers, preds) ==
  LET known == {p \in preds : p \in DOMAIN layers} IN
  IF known = {} THEN -1
  ELSE CHOOSE x \in {layers[p] : p \in known} :
         \A y \in {layers[p] : p \in known} : x <= y

\* Largest known predecessor layer of a vertex with a non-empty incoming set
\* (filter_map over vertex_layers.get, then max); -1 stands for None.
MaxPredLayer(layers, preds) ==
  LET known == {p \in preds : p \in DOMAIN layers} IN
  IF known = {} THEN -1 ELSE SetMax({layers[p] : p \in known})

\* Mutant: the layer of the highest predecessor, without the + 1.
NewLayer_NoInc(layers, inc, vertex) ==
  IF vertex \in DOMAIN inc
  THEN IF {p \in inc[vertex] : p \in DOMAIN layers} = {} THEN 0
       ELSE MaxPredLayer(layers, inc[vertex])
  ELSE 0

\* The new_layer computed for a dequeued vertex, without overflow checks.
NewLayer(layers, inc, vertex) ==
  IF vertex \in DOMAIN inc
  THEN IF inc[vertex] = {} THEN 0
       ELSE IF {p \in inc[vertex] : p \in DOMAIN layers} = {} THEN 0
            ELSE WrapInc(MaxPredLayer(layers, inc[vertex]))
  ELSE 0

\* Mutant: an updated vertex does not enqueue its successors.
Pushed_None(out, vertex) == {<<>>}

\* The sequences in which the successors of an updated vertex can be pushed
\* to the back of the queue (iteration of a HashSet).
Pushed(out, vertex) == Orders(MapGet(out, vertex, {}))

\* max_pred_layer + 1 overflows i32 for this vertex.
Overflows(layers, inc, vertex) ==
  /\ vertex \in DOMAIN inc
  /\ {p \in inc[vertex] : p \in DOMAIN layers} # {}
  /\ MaxPredLayer(layers, inc[vertex]) = I32Max

\* validate_layers: number of stored edges with layer(source) >= layer(target).
ValidateLayers(layers, out) ==
  Cardinality({e \in Ids \X Ids :
                 /\ e[1] \in DOMAIN out
                 /\ e[2] \in out[e[1]]
                 /\ MapGet(layers, e[1], 0) >= MapGet(layers, e[2], 0)})

StoredEdges == {e \in Ids \X Ids : e[1] \in DOMAIN outgoing_edges
                                   /\ e[2] \in outgoing_edges[e[1]]}

\* Edges offered to add_edges_batch: every edge from a smaller to a larger id
\* (all acyclic graphs up to renaming, in any arrival order), edges back to
\* vertex 1 (cycles), and edges that the loop skips: a blank endpoint (empty,
\* whitespace-only) and a self-loop.
EdgeInputs ==
  {e \in Vertices \X Vertices : e[1] < e[2] \/ (e[2] = 1 /\ e[1] = 2)}
    \cup {<<0, 1>>, <<1, -1>>, <<2, 2>>}
Batches == UNION {[1..n -> EdgeInputs] : n \in 0..MaxBatchLen}

(* --------------------------- layout pipeline --------------------------- *)
Range(q) == {q[i] : i \in 1..Len(q)}
Abs(x) == IF x < 0 THEN 0 - x ELSE x

\* An edge that validate_edges and build_graph keep: no blank endpoint and
\* no self-loop.
ValidEdge(e) ==
  /\ ~IsEmpty(Trim(e[1]))
  /\ ~IsEmpty(Trim(e[2]))
  /\ e[1] # e[2]

\* Mutant: validate_edges rejects the empty list only.
ValidateEdges_EmptyOnly(es) == IF Len(es) = 0 THEN "EmptyGraph" ELSE "ok"

\* HighPerformanceLayoutEngine::validate_edges: "ok" or the error.
ValidateEdges(es) ==
  IF Len(es) = 0 THEN "EmptyGraph"
  ELSE IF \A i \in 1..Len(es) : ~ValidEdge(es[i]) THEN "NoValidEdges"
       ELSE "ok"

\* The edges that the loop of build_graph passes to GraphBuilder::add_edge,
\* in order: valid, and not seen before.
\* Mutant: build_graph keeps the repeated edges.
UniqueValidEdges_NoDedup(es, i, acc) ==
  SelectSeq(es, LAMBDA e : ValidEdge(e))

RECURSIVE UniqueValidEdges(_, _, _)
UniqueValidEdges(es, i, acc) ==
  IF i > Len(es) THEN acc
  ELSE IF ValidEdge(es[i]) /\ \A j \in 1..Len(acc) : acc[j] # es[i]
       THEN UniqueValidEdges(es, i + 1, Append(acc, es[i]))
       ELSE UniqueValidEdges(es, i + 1, acc)

\* Mutant: add_edge takes every edge.
AddEdge_AcceptLoops(vertices, edges, source, target) ==
  [result |-> "ok", vertices |-> vertices \cup {source, target},
   edges |-> Append(edges, <<source, target>>)]

\* GraphBuilder::add_edge: its result and the builder after it.
AddEdge(vertices, edges, source, target) ==
  IF source = target
  THEN [result |-> "err", vertices |-> vertices, edges |-> edges]
  ELSE [result |-> "ok", vertices |-> vertices \cup {source, target},
        edges |-> Append(edges, <<source, target>>)]

\* GraphBuilder.vertices after the add_edge calls.
BuilderVertices(es) ==
  {es[i][1] : i \in 1..Len(es)} \cup {es[i][2] : i \in 1..Len(es)}

\* The adjacency list that GraphBuilder::build pushes for v: the other
\* endpoints of the edges whose endpoint number side is v, in edge order.
RECURSIVE Neighbours(_, _, _, _)
Neighbours(es, v, side, i) ==
  IF i > Len(es) THEN <<>>
  ELSE IF es[i][side] = v
       THEN <<es[i][3 - side]>> \o Neighbours(es, v, side, i + 1)
       ELSE Neighbours(es, v, side, i + 1)

\* Mutant: build fills the outgoing lists only.
BuildGraph_OutOnly(es, vorder) ==
  [vertex_ids |-> vorder,
   adjacency_out |-> [v \in Range(vorder) |-> Neighbours(es, v, 1, 1)],
   adjacency_in |-> [v \in Range(vorder) |-> <<>>],
   edge_count |-> Len(es)]

\* GraphBuilder::build; vorder is the order in which the HashSet of
\* vertices is iterated.  Vertices are named by their ids, not by indices.
BuildGraph(es, vorder) ==
  [vertex_ids |-> vorder,
   adjacency_out |-> [v \in Range(vorder) |-> Neighbours(es, v, 1, 1)],
   adjacency_in |-> [v \in Range(vorder) |-> Neighbours(es, v, 2, 1)],
   edge_count |-> Len(es)]

NoGraph == BuildGraph(<<>>, <<>>)

\* The edges of a Graph, as a set of pairs.
GraphEdges(g) ==
  {e \in Range(g.vertex_ids) \X Range(g.vertex_ids) :
     e[2] \in Range(g.adjacency_out[e[1]])}

\* kahn_parallel: the frontiers (levels), from the vertices whose in-degree
\* is 0; a vertex enters the next frontier when its in-degree reaches 0.
RECURSIVE KahnLevels(_, _, _)
KahnLevels(g, done, frontier) ==
  IF frontier = {} THEN <<>>
  ELSE LET done2 == done \cup frontier
           next == {v \in Range(g.vertex_ids) \ done2 :
                      Range(g.adjacency_in[v]) \subseteq done2}
       IN <<frontier>> \o KahnLevels(g, done2, next)

RECURSIVE LevelOrders(_)
LevelOrders(levels) ==
  IF levels = <<>> THEN {<<>>}
  ELSE {a \o b : a \in Orders(Head(levels)), b \in LevelOrders(Tail(levels))}

\* The results that kahn_parallel can collect: the frontiers one after the
\* other, each in any order (iteration of the in_degrees HashMap for the
\* first, the order in which the workers append for the others).
KahnOrders(g) ==
  LevelOrders(KahnLevels(g, {},
                {v \in Range(g.vertex_ids) : g.adjacency_in[v] = <<>>}))

\* Mutant: the length check of kahn_parallel never fails.
KahnFails_Never(g) == FALSE

\* The check at the end of kahn_parallel: result.len() != vertex_count.
KahnFails(g) ==
  \E o \in KahnOrders(g) : Len(o) # Len(g.vertex_ids)

IndexOf(order, v) == CHOOSE k \in 1..Len(order) : order[k] = v

\* The (current_idx, target_idx) pairs in the order of the nested loops of
\* find_longest_path_*.
RECURSIVE Relaxations(_, _, _)
Relaxations(g, order, i) ==
  IF i > Len(order) THEN <<>>
  ELSE LET outs == g.adjacency_out[order[i]]
       IN [k \in 1..Len(outs) |-> <<i, IndexOf(order, outs[k])>>]
            \o Relaxations(g, order, i + 1)

\* The distance updates; predecessor 0 stands for None.
RECURSIVE Relax(_, _, _)
Relax(st, rel, k) ==
  IF k > Len(rel) THEN st
  ELSE LET current_idx == rel[k][1]
           target_idx == rel[k][2]
           new_distance == st.distances[current_idx] + 1
       IN IF new_distance > st.distances[target_idx]
          THEN Relax([distances |->
                        [st.distances EXCEPT ![target_idx] = new_distance],
                      predecessors |->
                        [st.predecessors EXCEPT ![target_idx] = current_idx]],
                     rel, k + 1)
          ELSE Relax(st, rel, k + 1)

\* Iterator::max_by / max_by_key over the distances: the last index among
\* the largest values.
MaxIdx(distances) ==
  CHOOSE i \in DOMAIN distances :
    \A j \in DOMAIN distances :
      distances[j] < distances[i] \/ (distances[j] = distances[i] /\ j <= i)

\* The while loop of reconstruct_path never ends: following the
\* predecessors from idx takes more than n steps, which only happens when
\* they form a cycle.
RECURSIVE ReconstructLoops(_, _, _)
ReconstructLoops(idx, predecessors, n) ==
  IF idx = 0 THEN FALSE
  ELSE IF n = 0 THEN TRUE
  ELSE ReconstructLoops(predecessors[idx], predecessors, n - 1)

\* SIMDLongestPath::reconstruct_path
RECURSIVE ReconstructPath(_, _, _)
ReconstructPath(idx, predecessors, order) ==
  IF idx = 0 THEN <<>>
  ELSE Append(ReconstructPath(predecessors[idx], predecessors, order),
              order[idx])

\* find_longest_path_standard (i32 distances).
FindLongestPathStandard(g, order) ==
  LET st == Relax([distances |-> [i \in 1..Len(order) |-> 0],
                   predecessors |-> [i \in 1..Len(order) |-> 0]],
                  Relaxations(g, order, 1), 1)
  IN ReconstructPath(MaxIdx(st.distances), st.predecessors, order)

\* The integers that an f32 distance counts exactly: 2^24 in the code,
\* scaled to 2^DistBits.
DistExact == Pow2(DistBits)
\* distance + 1.0 in f32: exact below DistExact, where the sum rounds back
\* to the distance itself (round to nearest, ties to even).
F32Inc(x) == IF x >= DistExact THEN x ELSE x + 1

\* The distance updates of find_longest_path_simd_optimized, on f32.
RECURSIVE RelaxSimd(_, _, _)
RelaxSimd(st, rel, k) ==
  IF k > Len(rel) THEN st
  ELSE LET current_idx == rel[k][1]
           target_idx == rel[k][2]
           new_distance == F32Inc(st.distances[current_idx])
       IN IF new_distance > st.distances[target_idx]
          THEN RelaxSimd([distances |->
                            [st.distances EXCEPT ![target_idx] = new_distance],
                          predecessors |->
                            [st.predecessors EXCEPT ![target_idx] = current_idx]],
                         rel, k + 1)
          ELSE RelaxSimd(st, rel, k + 1)

\* find_longest_path_simd_optimized (f32 distances).
FindLongestPathSimdOptimized(g, order) ==
  LET st == RelaxSimd([distances |-> [i \in 1..Len(order) |-> 0],
                   predecessors |-> [i \in 1..Len(order) |-> 0]],
                  Relaxations(g, order, 1), 1)
  IN ReconstructPath(MaxIdx(st.distances), st.predecessors, order)

\* SIMDLongestPath::find_simd
FindSimd(g, order, simd_enabled) ==
  IF simd_enabled THEN FindLongestPathSimdOptimized(g, order)
  ELSE FindLongestPathStandard(g, order)

\* find_simd does not return in the f32 variant.
FindSimdOptimizedLoops(g, order) ==
  LET st == RelaxSimd([distances |-> [i \in 1..Len(order) |-> 0],
                       predecessors |-> [i \in 1..Len(order) |-> 0]],
                      Relaxations(g, order, 1), 1)
  IN ReconstructLoops(MaxIdx(st.distances), st.predecessors, Len(order))

\* find_simd does not return: reconstruct_path pushes vertices forever.
FindSimdLoops(g, order) ==
  LET st == Relax([distances |-> [i \in 1..Len(order) |-> 0],
                   predecessors |-> [i \in 1..Len(order) |-> 0]],
                  Relaxations(g, order, 1), 1)
  IN ReconstructLoops(MaxIdx(st.distances), st.predecessors, Len(order))

\* Mutant: a target keeps the layer of its first visit.
ShouldUpdate_FirstVisit(lm, target_id, new_layer) == target_id \notin DOMAIN lm

\* Mutant: a target takes a layer below the one it has.
ShouldUpdate_Lower(lm, target_id, new_layer) ==
  IF target_id \in DOMAIN lm THEN new_layer < lm[target_id] ELSE TRUE

\* should_update of assign_layers_bfs.
ShouldUpdate(lm, target_id, new_layer) ==
  IF target_id \in DOMAIN lm THEN new_layer > lm[target_id] ELSE TRUE

\* The for loop over the outgoing edges of a dequeued vertex.
\* st = [lm, q].
RECURSIVE BfsTargets(_, _, _, _)
BfsTargets(st, targets, new_layer, k) ==
  IF k > Len(targets) THEN st
  ELSE IF ShouldUpdate(st.lm, targets[k], new_layer)
       THEN BfsTargets([lm |-> MapPut(st.lm, targets[k], new_layer),
                        q |-> Append(st.q, <<targets[k], new_layer>>)],
                       targets, new_layer, k + 1)
       ELSE BfsTargets(st, targets, new_layer, k + 1)

\* The while loop of assign_layers_bfs.
RECURSIVE BfsLoop(_, _)
BfsLoop(g, st) ==
  IF st.q = <<>> THEN st.lm
  ELSE BfsLoop(g, BfsTargets([lm |-> st.lm, q |-> Tail(st.q)],
                             g.adjacency_out[Head(st.q)[1]],
                             Head(st.q)[2] + 1, 1))

\* Mutant: every vertex gets the layer of the sources.
AssignLayersBfs_Flat(g) == [v \in Range(g.vertex_ids) |-> 0]

IsSource(g, v) == g.adjacency_in[v] = <<>>

\* assign_layers_bfs: the layer map (empty when there is no source).
AssignLayersBfs(g) ==
  LET sources == SelectSeq(g.vertex_ids, LAMBDA v : IsSource(g, v))
  IN IF sources = <<>> THEN EmptyMap
     ELSE BfsLoop(g, [lm |-> [v \in Range(sources) |-> 0],
                      q |-> [i \in 1..Len(sources) |-> <<sources[i], 0>>]])

\* validate_layer_assignments: the number of entries of the outgoing lists
\* whose two ends have a layer and whose source layer is not below the
\* target layer.
ValidateLayerAssignments(lm, g) ==
  Cardinality({p \in (DOMAIN lm) \X (1..MaxGraphEdges + 1) :
                 /\ p[2] <= Len(g.adjacency_out[p[1]])
                 /\ g.adjacency_out[p[1]][p[2]] \in DOMAIN lm
                 /\ lm[p[1]] >= lm[g.adjacency_out[p[1]][p[2]]]})

\* place_vertices_in_layer giving each pair of consecutive vertices one
\* level (two vertices share a cell).
PlaceVerticesInLayer_HalfLevel(layer, vertex_ids, config) ==
  [i \in 1..Len(vertex_ids) |->
     [vertex_id |-> vertex_ids[i],
      x |-> layer * (config.block_width + config.horizontal_gap),
      y |-> (i - 1) * (config.block_height + config.vertical_gap),
      layer |-> layer,
      level |-> (i - 1) \div 2]]

\* place_vertices_in_layer
PlaceVerticesInLayer(layer, vertex_ids, config) ==
  [i \in 1..Len(vertex_ids) |->
     [vertex_id |-> vertex_ids[i],
      x |-> layer * (config.block_width + config.horizontal_gap),
      y |-> (i - 1) * (config.block_height + config.vertical_gap),
      layer |-> layer,
      level |-> i - 1]]

RECURSIVE PlaceLayers(_, _, _, _, _)
PlaceLayers(lm, config, iter_order, sorted_layers, k) ==
  IF k > Len(sorted_layers) THEN <<>>
  ELSE PlaceVerticesInLayer(
         sorted_layers[k],
         SelectSeq(iter_order, LAMBDA v : lm[v] = sorted_layers[k]),
         config)
       \o PlaceLayers(lm, config, iter_order, sorted_layers, k + 1)

\* place_all_vertices; iter_order is the order in which the layer map (a
\* HashMap) is iterated, which is the order inside each layer.
PlaceAllVertices(lm, config, iter_order) ==
  PlaceLayers(lm, config, iter_order,
              SortedSeq({lm[v] : v \in DOMAIN lm}), 1)

\* The indices of the positions of one layer, sorted by y (stable sort).
LayerIndices(ps, layer) ==
  LET S == {i \in 1..Len(ps) : ps[i].layer = layer}
  IN CHOOSE q \in Orders(S) :
       \A a, b \in 1..Cardinality(S) :
         a < b => \/ ps[q[a]].y < ps[q[b]].y
                  \/ (ps[q[a]].y = ps[q[b]].y /\ q[a] < q[b])

\* has_gaps of compact_layout for one layer.
HasGaps(ps, indices) ==
  \E i \in 2..Len(indices) :
    ps[indices[i]].y - ps[indices[i - 1]].y > CompactGap

\* Mutant: a layer with gaps is moved half way only.
CompactLayout_Halve(ps) ==
  LET gappy == {l \in {ps[i].layer : i \in 1..Len(ps)} :
                  HasGaps(ps, LayerIndices(ps, l))}
  IN [positions |->
        [i \in 1..Len(ps) |->
           IF ps[i].layer \in gappy
           THEN [ps[i] EXCEPT !.y = ps[i].y \div 2]
           ELSE ps[i]],
      improved |-> gappy # {}]

\* compact_layout: [positions, improved].
CompactLayout(ps) ==
  LET gappy == {l \in {ps[i].layer : i \in 1..Len(ps)} :
                  HasGaps(ps, LayerIndices(ps, l))}
  IN [positions |->
        [i \in 1..Len(ps) |->
           IF ps[i].layer \in gappy
           THEN [ps[i] EXCEPT
                   !.y = (IndexOf(LayerIndices(ps, ps[i].layer), i) - 1)
                           * CompactGap]
           ELSE ps[i]],
      improved |-> gappy # {}]

\* The for loop of optimize_placement from the given iteration on.
RECURSIVE OptimizeLoop(_, _, _)
OptimizeLoop(ps, opt_options, iter) ==
  IF iter >= opt_options.max_iterations THEN ps
  ELSE LET r == IF opt_options.compact_layout THEN CompactLayout(ps)
                ELSE [positions |-> ps, improved |-> FALSE]
       IN IF ~r.improved THEN r.positions
          ELSE OptimizeLoop(r.positions, opt_options, iter + 1)

\* The number of passes of the for loop of optimize_placement from the
\* given iteration on.
RECURSIVE OptimizePasses(_, _, _)
OptimizePasses(ps, opt_options, iter) ==
  IF iter >= opt_options.max_iterations THEN 0
  ELSE LET r == IF opt_options.compact_layout THEN CompactLayout(ps)
                ELSE [positions |-> ps, improved |-> FALSE]
       IN IF ~r.improved THEN 1
          ELSE 1 + OptimizePasses(r.positions, opt_options, iter + 1)

\* optimize_placement
OptimizePlacement(ps, opt_options) == OptimizeLoop(ps, opt_options, 0)

\* f32 arithmetic.  A value is [m, e], standing for m * 2^e, with m odd
\* (or m = 0 and e = 0) and |m| < 2^24; the exponent range is not modelled.
RECURSIVE BitLen(_)
BitLen(n) == IF n = 0 THEN 0 ELSE 1 + BitLen(n \div 2)

RECURSIVE F32Reduce(_, _)
F32Reduce(m, e) ==
  IF m = 0 THEN [m |-> 0, e |-> 0]
  ELSE IF m % 2 = 0 THEN F32Reduce(m \div 2, e + 1)
  ELSE [m |-> m, e |-> e]

\* i as f32, for |i| < 2^24.
F32Of(i) == F32Reduce(i, 0)

F32Signed(neg, q, e) == F32Reduce(IF neg THEN 0 - q ELSE q, e)

\* The value with its mantissa shifted to 24 bits.
F32Norm(f) ==
  LET sh == 24 - BitLen(Abs(f.m))
  IN [m |-> f.m * Pow2(sh), e |-> f.e - sh]

\* The f32 nearest to (S * 2^d + r) * 2^e, ties to even, for S < 2^25,
\* 0 <= r < 2^d and d <= 25; neg gives the sign.
F32Round(neg, S, r, d, e) ==
  LET S1 == IF S = 0 THEN r ELSE S
      r1 == IF S = 0 THEN 0 ELSE r
      d1 == IF S = 0 THEN 0 ELSE d
      s == BitLen(S1) + d1 - 24
  IN IF s <= 0 THEN F32Signed(neg, S1 * Pow2(d1) + r1, e)
     ELSE LET q == IF s <= d1 THEN S1 * Pow2(d1 - s) + r1 \div Pow2(s)
                   ELSE S1 \div Pow2(s - d1)
              rem == IF s <= d1 THEN r1 % Pow2(s)
                     ELSE (S1 % Pow2(s - d1)) * Pow2(d1) + r1
              up == \/ rem > Pow2(s - 1)
                    \/ rem = Pow2(s - 1) /\ q % 2 = 1
          IN F32Signed(neg, IF up THEN q + 1 ELSE q, e + s)

\* a + b in f32.
F32Add(a, b) ==
  IF a.m = 0 THEN b
  ELSE IF b.m = 0 THEN a
  ELSE LET na == F32Norm(a)
           nb == F32Norm(b)
           hi == IF na.e >= nb.e THEN na ELSE nb
           lo == IF na.e >= nb.e THEN nb ELSE na
           d == hi.e - lo.e
       IN IF d > 25 THEN F32Reduce(hi.m, hi.e)
          ELSE LET q == lo.m \div Pow2(d)
                   r == lo.m % Pow2(d)
                   S == hi.m + q
               IN IF S >= 0 THEN F32Round(FALSE, S, r, d, lo.e)
                  ELSE IF r = 0 THEN F32Round(TRUE, 0 - S, 0, d, lo.e)
                  ELSE F32Round(TRUE, 0 - S - 1, Pow2(d) - r, d, lo.e)

\* a * b in f32: the 48-bit product of the mantissas from 12-bit halves.
F32Mul(a, b) ==
  IF a.m = 0 \/ b.m = 0 THEN F32Of(0)
  ELSE LET na == F32Norm(a)
           nb == F32Norm(b)
           a1 == Abs(na.m) \div Pow2(12)
           a0 == Abs(na.m) % Pow2(12)
           b1 == Abs(nb.m) \div Pow2(12)
           b0 == Abs(nb.m) % Pow2(12)
           mid == a1 * b0 + a0 * b1
           low == (mid % Pow2(12)) * Pow2(12) + a0 * b0
           high == a1 * b1 + mid \div Pow2(12) + low \div F32Exact
       IN F32Round((a.m < 0) # (b.m < 0), high, low % F32Exact, 24,
                   na.e + nb.e)

\* The quotient bits of a long division: k more bits after q, with
\* remainder rem.
RECURSIVE F32DivBits(_, _, _, _)
F32DivBits(q, rem, divisor, k) ==
  IF k = 0 THEN [q |-> q, rem |-> rem]
  ELSE IF 2 * rem >= divisor
       THEN F32DivBits(2 * q + 1, 2 * rem - divisor, divisor, k - 1)
       ELSE F32DivBits(2 * q, 2 * rem, divisor, k - 1)

\* a / b in f32, for b other than 0.
F32Div(a, b) ==
  IF a.m = 0 THEN F32Of(0)
  ELSE LET na == F32Norm(a)
           nb == F32Norm(b)
           k == IF Abs(na.m) >= Abs(nb.m) THEN 23 ELSE 24
           dv == F32DivBits(Abs(na.m) \div Abs(nb.m),
                            Abs(na.m) % Abs(nb.m), Abs(nb.m), k)
           up == \/ 2 * dv.rem > Abs(nb.m)
                 \/ 2 * dv.rem = Abs(nb.m) /\ dv.q % 2 = 1
       IN F32Signed((a.m < 0) # (b.m < 0), IF up THEN dv.q + 1 ELSE dv.q,
                    na.e - nb.e - k)

\* A waypoint (x / den, y / den); den is a power of 2, the smallest for
\* which x and y are integers.
Point(x, y, den) == [x |-> x, y |-> y, den |-> den]

\* The waypoint with the f32 coordinates fx and fy.
F32Point(fx, fy) ==
  LET k == IF fx.e < fy.e THEN (IF fx.e < 0 THEN 0 - fx.e ELSE 0)
           ELSE (IF fy.e < 0 THEN 0 - fy.e ELSE 0)
  IN Point(fx.m * Pow2(fx.e + k), fy.m * Pow2(fy.e + k), Pow2(k))

\* Mutant: a polyline without its intermediate waypoints.
ComputePolyline_NoIntermediates(source, target, config) ==
  <<Point(source.x + config.block_width,
          source.y + config.block_height \div 2, 1),
    Point(target.x, target.y + config.block_height \div 2, 1)>>

\* compute_polyline.  The coordinates of the positions and the sizes of
\* the configuration are integers and the block heights are even, so the
\* sums and differences of them and block_height / 2.0 are exact; the
\* steps and the intermediate waypoints are rounded as f32.
ComputePolyline(source, target, config) ==
  LET start_x == source.x + config.block_width
      start_y == source.y + config.block_height \div 2
      layer_span == Abs(target.layer - source.layer)
      num_intermediates == layer_span - 1
      end_x == target.x
      end_y == target.y + config.block_height \div 2
      x_step == F32Div(F32Of(target.x - start_x), F32Of(num_intermediates + 1))
      y_step == F32Div(F32Of(end_y - start_y), F32Of(num_intermediates + 1))
  IN <<Point(start_x, start_y, 1)>>
     \o [i \in 1..num_intermediates |->
           F32Point(F32Add(F32Of(start_x), F32Mul(x_step, F32Of(i))),
                    F32Add(F32Of(start_y), F32Mul(y_step, F32Of(i))))]
     \o <<Point(end_x, end_y, 1)>>

\* Mutant: a span equal to the threshold still gets the straight line.
ComputeSingleEdgePath_AtMost(source, target, config, options) ==
  IF ~options.use_polylines
     \/ Abs(target.layer - source.layer) <= options.polyline_threshold
  THEN <<Point(source.x + config.block_width,
               source.y + config.block_height \div 2, 1),
         Point(target.x, target.y + config.block_height \div 2, 1)>>
  ELSE ComputePolyline(source, target, config)

\* compute_single_edge_path
ComputeSingleEdgePath(source, target, config, options) ==
  IF ~options.use_polylines
     \/ Abs(target.layer - source.layer) < options.polyline_threshold
  THEN <<Point(source.x + config.block_width,
               source.y + config.block_height \div 2, 1),
         Point(target.x, target.y + config.block_height \div 2, 1)>>
  ELSE ComputePolyline(source, target, config)

\* pos_map of compute_edge_paths: the (last) position with this id.
PosOf(ps, v) ==
  ps[CHOOSE i \in 1..Len(ps) :
       /\ ps[i].vertex_id = v
       /\ \A j \in 1..Len(ps) : ps[j].vertex_id = v => j <= i]

\* compute_edge_paths: (source_id, target_id) -> waypoints, for the edges
\* of the graph whose endpoints both have a position.
ComputeEdgePaths(ps, g, config, options) ==
  LET placed == {ps[i].vertex_id : i \in 1..Len(ps)}
  IN [e \in {d \in GraphEdges(g) : d[1] \in placed /\ d[2] \in placed} |->
        ComputeSingleEdgePath(PosOf(ps, e[1]), PosOf(ps, e[2]),
                              config, options)]

\* EdgeRoutingOptions::default
EdgeRoutingDefault ==
  [use_polylines |-> TRUE, polyline_threshold |-> PolylineThreshold]

\* PlacementConfig and OptimizationOptions built by
\* HighPerformanceLayoutEngine::new from the LayoutOptions.
PlacementConfigOf(options) ==
  [block_width |-> options.block_width,
   block_height |-> options.block_height,
   horizontal_gap |-> options.horizontal_gap,
   vertical_gap |-> options.vertical_gap]
OptimizationOptionsOf(options) ==
  [compact_layout |-> options.optimize_layout,
   max_iterations |-> OptMaxIterations]

\* OptimalVertexPlacer::place_vertices after assign_layers_bfs, for one
\* iteration order of the layer map: [positions, edge_paths].
PlaceVerticesFrom(lm, g, options, iter_order) ==
  IF DOMAIN lm = {} THEN [positions |-> <<>>, edge_paths |-> EmptyMap]
  ELSE LET placed == PlaceAllVertices(lm, PlacementConfigOf(options),
                                      iter_order)
           ps == IF OptimizationOptionsOf(options).compact_layout
                 THEN OptimizePlacement(placed, OptimizationOptionsOf(options))
                 ELSE placed
       IN [positions |-> ps,
           edge_paths |-> ComputeEdgePaths(ps, g, PlacementConfigOf(options),
                                           EdgeRoutingDefault)]

\* The LayoutOptions that matter to the engine.  The engine takes them in
\* new(); the options argument of compute_layout only goes to the metadata.
TestOptions ==
  [block_width |-> 160, block_height |-> 80, horizontal_gap |-> 40,
   vertical_gap |-> 60]
ServerOptions ==
  [block_width |-> 200, block_height |-> 80, horizontal_gap |-> 40,
   vertical_gap |-> 50]
LayoutOptionsSet ==
  {[block_width |-> c.block_width, block_height |-> c.block_height,
    horizontal_gap |-> c.horizontal_gap, vertical_gap |-> c.vertical_gap,
    optimize_layout |-> o, enable_simd |-> s] :
     c \in {TestOptions, ServerOptions}, o \in BOOLEAN, s \in BOOLEAN}

\* Edge lists given to compute_layout: any pairs of a few ids (self-loops,
\* cycles and repetitions included) and edges with a blank endpoint.
LayoutEdgeInputs ==
  ((1..NumLayoutVertices) \X (1..NumLayoutVertices)) \cup {<<0, 1>>, <<1, -1>>}
LayoutInputs == UNION {[1..n -> LayoutEdgeInputs] : n \in 0..MaxLayoutEdges}


\* The layer maps given to place_all_vertices: some of the ids, each with a
\* layer (the layers need not be contiguous).
LayerMaps ==
  UNION {[S -> 0..MaxPlaceLayer] : S \in SUBSET (1..NumPlaceVertices)}

\* Graph::contains_edge
ContainsEdge(g, source, target) ==
  /\ source \in Range(g.vertex_ids)
  /\ target \in Range(g.vertex_ids)
  /\ target \in Range(g.adjacency_out[source])

\* SIMDLongestPath::validate_path
ValidatePath(g, path) ==
  IF path = <<>> THEN "ok"
  ELSE IF \E i \in 1..(Len(path) - 1) :
            ~ContainsEdge(g, path[i], path[i + 1])
       THEN "err"
       ELSE "ok"

(* ------------------------- Graph::has_cycle ---------------------------- *)
\* Mutant: a neighbour that is already Black counts as a cycle too.
BackEdge_Visited(c) == c # "White"

\* The neighbour colour for which dfs_cycle_check reports a cycle.
BackEdge(c) == c = "Gray"

\* dfs_cycle_check and its for loop over the neighbours from number k on:
\* [cycle, color].
RECURSIVE DfsCycleCheck(_, _, _)
RECURSIVE DfsNeighbours(_, _, _, _)
DfsCycleCheck(g, current, color) ==
  DfsNeighbours(g, current, 1, [color EXCEPT ![current] = "Gray"])
DfsNeighbours(g, current, k, color) ==
  IF k > Len(g.adjacency_out[current])
  THEN [cycle |-> FALSE, color |-> [color EXCEPT ![current] = "Black"]]
  ELSE LET neighbor == g.adjacency_out[current][k]
       IN IF BackEdge(color[neighbor])
          THEN [cycle |-> TRUE, color |-> color]
          ELSE IF color[neighbor] = "White"
          THEN LET r == DfsCycleCheck(g, neighbor, color)
               IN IF r.cycle THEN r
                  ELSE DfsNeighbours(g, current, k + 1, r.color)
          ELSE DfsNeighbours(g, current, k + 1, color)

\* The for loop of has_cycle over the start vertices from index i on.
RECURSIVE HasCycleFrom(_, _, _)
HasCycleFrom(g, i, color) ==
  IF i > Len(g.vertex_ids) THEN FALSE
  ELSE IF color[g.vertex_ids[i]] = "White"
  THEN LET r == DfsCycleCheck(g, g.vertex_ids[i], color)
       IN IF r.cycle THEN TRUE ELSE HasCycleFrom(g, i + 1, r.color)
  ELSE HasCycleFrom(g, i + 1, color)

\* Graph::has_cycle
HasCycle(g) == HasCycleFrom(g, 1, [v \in Range(g.vertex_ids) |-> "White"])

\* Graph::is_dag
IsDag(g) == HasCycle(g) = FALSE

(* --------------------------- ParallelTopoSort -------------------------- *)
\* compute_in_degrees_simd: for each vertex the number of entries of the
\* outgoing adjacency lists that name it (the fetch_add calls commute).
InDegrees(g) ==
  [t \in Range(g.vertex_ids) |->
     Cardinality({p \in Range(g.vertex_ids) \X (1..MaxGraphEdges + 1) :
                    /\ p[2] <= Len(g.adjacency_out[p[1]])
                    /\ g.adjacency_out[p[1]][p[2]] = t})]

\* par_chunks(batch_size): the chunks of a slice, in order.
Chunks(vertices, chunk_len) ==
  [c \in 1..((Len(vertices) + chunk_len - 1) \div chunk_len) |->
     SubSeq(vertices, (c - 1) * chunk_len + 1,
            IF c * chunk_len < Len(vertices) THEN c * chunk_len
            ELSE Len(vertices))]

\* The targets whose in-degree one chunk decrements, in the order of its
\* two nested loops.
RECURSIVE ChunkTargets(_, _, _)
ChunkTargets(g, chunk, i) ==
  IF i > Len(chunk) THEN <<>>
  ELSE g.adjacency_out[chunk[i]] \o ChunkTargets(g, chunk, i + 1)

\* Number of entries of a sequence that are equal to x.
CountIn(q, x) == Cardinality({i \in 1..Len(q) : q[i] = x})

\* Position of the last entry of a sequence that is equal to x.
LastIn(q, x) == CHOOSE i \in 1..Len(q) : q[i] = x /\ \A j \in (i + 1)..Len(q) : q[j] # x

\* The in-degrees after all chunks of a level have run.
DegreesAfter(g, in_degrees, chunks) ==
  [t \in DOMAIN in_degrees |->
     in_degrees[t]
       - Cardinality({p \in (1..Len(chunks)) \X (1..MaxGraphEdges + 1) :
                        /\ p[2] <= Len(ChunkTargets(g, chunks[p[1]], 1))
                        /\ ChunkTargets(g, chunks[p[1]], 1)[p[2]] = t})]

\* The local_next of one chunk: the targets for which this chunk made the
\* decrement to 0, in the order in which it made them.  win[t] is the chunk
\* whose fetch_sub on t returned 1.
LocalNext(targets, c, win) ==
  LET mine == {t \in DOMAIN win : win[t] = c}
  IN SelectSeq([i \in 1..Len(targets) |->
                  IF targets[i] \in mine /\ LastIn(targets, targets[i]) = i
                  THEN targets[i] ELSE 0],
               LAMBDA x : x # 0)

RECURSIVE ConcatAll(_, _, _)
ConcatAll(locals, chunk_order, i) ==
  IF i > Len(chunk_order) THEN <<>>
  ELSE locals[chunk_order[i]] \o ConcatAll(locals, chunk_order, i + 1)

\* Mutant: a target enters the next level at its first decrement.
ProcessLevelParallel_Eager(g, vertices, in_degrees, chunk_len) ==
  Orders(UNION {Range(g.adjacency_out[vertices[i]]) : i \in 1..Len(vertices)})

\* process_level_parallel: the vectors that next_vertices can hold at the
\* end.  The chunks run in parallel: for a target that several chunks
\* decrement, any of them can be the one that brings it to 0 (the
\* fetch_sub calls are Relaxed, so the modification orders of different
\* counters are independent), and the chunks with a non-empty local_next
\* take the lock in any order.
ProcessLevelParallel(g, vertices, in_degrees, chunk_len) ==
  LET chunks == Chunks(vertices, chunk_len)
      targets == [c \in 1..Len(chunks) |-> ChunkTargets(g, chunks[c], 1)]
      after == DegreesAfter(g, in_degrees, chunks)
      zeroed == {t \in DOMAIN in_degrees : in_degrees[t] > 0 /\ after[t] = 0}
      wins == {win \in [zeroed -> 1..Len(chunks)] :
                 \A t \in zeroed : CountIn(targets[win[t]], t) > 0}
  IN UNION {
       LET locals == [c \in 1..Len(chunks) |-> LocalNext(targets[c], c, win)]
       IN {ConcatAll(locals, chunk_order, 1) :
             chunk_order \in
               Orders({c \in 1..Len(chunks) : locals[c] # <<>>})}
       : win \in wins}

\* Mutant: kahn_parallel without its cycle check.
KahnOutcome_AlwaysOk(result, g) == "ok"

\* The cycle check at the end of kahn_parallel.
KahnOutcome(result, g) ==
  IF Len(result) # Len(g.vertex_ids) THEN "err" ELSE "ok"

\* What validate_result does with the pair (vertex, target) number k of its
\* nested loops: both positions come from position_map (the last position
\* of an id in the order); indexing it with an id that is not in the order
\* panics.
RECURSIVE ValidatePairs(_, _, _)
ValidatePairs(order, pairs, k) ==
  IF k > Len(pairs) THEN "ok"
  ELSE IF CountIn(order, pairs[k][2]) = 0 THEN "panic"
  ELSE IF LastIn(order, pairs[k][1]) >= LastIn(order, pairs[k][2]) THEN "err"
  ELSE ValidatePairs(order, pairs, k + 1)

\* The (vertex, target) pairs of validate_result, in loop order; an id of
\* the order that is not a vertex of the graph has no outgoing edges.
RECURSIVE OrderPairs(_, _, _)
OrderPairs(g, order, i) ==
  IF i > Len(order) THEN <<>>
  ELSE (IF order[i] \in Range(g.vertex_ids)
        THEN [k \in 1..Len(g.adjacency_out[order[i]]) |->
                <<order[i], g.adjacency_out[order[i]][k]>>]
        ELSE <<>>)
       \o OrderPairs(g, order, i + 1)

\* ParallelTopoSort::validate_result
ValidateResult(g, order) ==
  IF Len(order) # Len(g.vertex_ids) THEN "err"
  ELSE ValidatePairs(order, OrderPairs(g, order, 1), 1)

\* The graphs given to the calls: GraphBuilder with add_edge for a few
\* edges (no self-loops, which add_edge refuses; repetitions included) and
\* build, with the vertices in the iteration order of the HashSet.
GraphEdgeInputs ==
  {e \in (1..NumGraphVertices) \X (1..NumGraphVertices) : e[1] # e[2]}
GraphEdgeLists == UNION {[1..n -> GraphEdgeInputs] : n \in 1..MaxGraphEdges}
GraphInputs ==
  UNION {{BuildGraph(es, vorder) : vorder \in Orders(BuilderVertices(es))} :
           es \in GraphEdgeLists}

(* ----------------------------- batch driver ---------------------------- *)
\* The orders in which build_graph can meet the vertices of the builder's
\* HashSet: every order of them.
LayoutVertexOrders(es) ==
  Orders(BuilderVertices(UniqueValidEdges(es, 1, <<>>)))

\* The positions that GraphLayoutServer::compute_layout answers for a
\* request with these edges: none when the engine reports an error.
\* vorder is the iteration order of the builder's vertex set in
\* build_graph, iter_order that of the layer map in place_all_vertices.
LayoutGraphOf(es, vorder) ==
  BuildGraph(UniqueValidEdges(es, 1, <<>>), vorder)
LayoutFails(es, vorder) ==
  ValidateEdges(es) # "ok" \/ KahnFails(LayoutGraphOf(es, vorder))
ResponsePositions(es, options, iter_order, vorder) ==
  IF LayoutFails(es, vorder) THEN <<>>
  ELSE PlaceVerticesFrom(AssignLayersBfs(LayoutGraphOf(es, vorder)),
                         LayoutGraphOf(es, vorder), options,
                         iter_order).positions

\* The vertices of each layer, by ascending layer.
LayerSets(lm) ==
  LET sorted_layers == SortedSeq({lm[v] : v \in DOMAIN lm})
  IN [k \in 1..Len(sorted_layers) |->
        {v \in DOMAIN lm : lm[v] = sorted_layers[k]}]

\* The iteration orders of the layer map that differ inside a layer.
IterOrders(es, vorder) ==
  IF LayoutFails(es, vorder) THEN {<<>>}
  ELSE LevelOrders(LayerSets(AssignLayersBfs(LayoutGraphOf(es, vorder))))

\* save_layout_results_with_batch_size with all transactions committed:
\* SET a.layer, a.level, a.x, a.y on the article of each position.
SaveLayoutResults(db, ps) ==
  [v \in (DOMAIN db) \cup {ps[i].vertex_id : i \in 1..Len(ps)} |->
     IF \E i \in 1..Len(ps) : ps[i].vertex_id = v
     THEN [layer |-> PosOf(ps, v).layer, level |-> PosOf(ps, v).level,
           x |-> PosOf(ps, v).x, y |-> PosOf(ps, v).y]
     ELSE db[v]]

\* The LayoutOptions of the request that process_edges_batch makes.
BatchLayoutOptions ==
  [block_width |-> ServerOptions.block_width,
   block_height |-> ServerOptions.block_height,
   horizontal_gap |-> ServerOptions.horizontal_gap,
   vertical_gap |-> ServerOptions.vertical_gap,
   optimize_layout |-> TRUE, enable_simd |-> TRUE]

\* The rows of the database, in the order in which the paged query returns
\* them (taken to be the same for every page).  The query returns one row
\* for each relationship, so a pair of articles that several relationships
\* link comes several times: the rows are those of a chain of up to
\* NumDbVertices articles, in citation order or in reverse, returned over
\* and over up to MaxDbEdges rows, or a short list of arbitrary edges.
Chain(n) == [i \in 1..n |-> <<i, i + 1>>]
ReverseChain(n) == [i \in 1..n |-> <<n + 1 - i, n + 2 - i>>]
Repeated(base, n) == [i \in 1..n |-> base[((i - 1) % Len(base)) + 1]]
DbInputs ==
  {Repeated(Chain(k), n) : k \in 1..(NumDbVertices - 1), n \in 0..MaxDbEdges}
    \cup {Repeated(ReverseChain(k), n) :
            k \in 1..(NumDbVertices - 1), n \in 0..MaxDbEdges}
    \cup [1..2 -> LayoutEdgeInputs]

(* ------------------------- initial conditions -------------------------- *)
\* GlobalLayerState::new
GlsNew ==
  /\ vertex_layers = EmptyMap
  /\ outgoing_edges = EmptyMap
  /\ incoming_edges = EmptyMap
  /\ dirty_vertices = {}
  /\ max_layer = 0
  /\ total_vertices = 0
  /\ total_edges = 0
  /\ update_iterations = 0
  /\ pc = "idle"
  /\ caller = "none"
  /\ queue = <<>>
  /\ updated_count = 0
  /\ iteration = 0
  /\ total_updates = 0
  /\ last_updates = -1
  /\ passes = 0
  /\ nbatches = 0
  /\ converged = FALSE
  /\ propagated = FALSE

NoResult ==
  [status |-> "none", positions |-> <<>>, edge_paths |-> EmptyMap,
   longest_path_length |-> 0, vertices_processed |-> 0, edges_processed |-> 0]
ErrorResult(error) == [NoResult EXCEPT !.status = error]

\* No layout request.
LayoutOff ==
  /\ layout_pc = "off"
  /\ req_edges = <<>>
  /\ engine_options = [block_width |-> ServerOptions.block_width,
                       block_height |-> ServerOptions.block_height,
                       horizontal_gap |-> ServerOptions.horizontal_gap,
                       vertical_gap |-> ServerOptions.vertical_gap,
                       optimize_layout |-> TRUE, enable_simd |-> TRUE]
  /\ graph = NoGraph
  /\ topo_order = <<>>
  /\ longest_path = <<>>
  /\ layer_map = EmptyMap
  /\ positions = <<>>
  /\ edge_paths = EmptyMap
  /\ layout_result = NoResult

\* HighPerformanceLayoutEngine::new(options), and compute_layout called
\* with an edge list.
LayoutStart ==
  /\ layout_pc = "start"
  /\ req_edges \in LayoutInputs
  /\ engine_options \in LayoutOptionsSet
  /\ graph = NoGraph
  /\ topo_order = <<>>
  /\ longest_path = <<>>
  /\ layer_map = EmptyMap
  /\ positions = <<>>
  /\ edge_paths = EmptyMap
  /\ layout_result = NoResult

BatchOff ==
  /\ batch_pc = "off"
  /\ db_edges = <<>>
  /\ batch_size = 1
  /\ total_batches = 0
  /\ batch_num = 0
  /\ all_edges = <<>>
  /\ processed_edges = 0
  /\ saved = EmptyMap
  /\ layouts_run = 0
  /\ save_batch_size = 1
  /\ batch_positions = <<>>
  /\ batch_slices = <<>>
  /\ db_faults = 0

\* The program is started in batch mode on a database.
BatchStart ==
  /\ batch_pc = "start"
  /\ db_edges \in DbInputs
  /\ batch_size \in 1..MaxBatchSize
  /\ total_batches = 0
  /\ batch_num = 0
  /\ all_edges = <<>>
  /\ processed_edges = 0
  /\ saved = EmptyMap
  /\ layouts_run = 0
  /\ save_batch_size \in 0..MaxSaveBatchSize
  /\ batch_positions = <<>>
  /\ batch_slices = <<>>
  /\ db_faults = 0

\* No call of place_all_vertices.
PlaceOff ==
  /\ place_pc = "off"
  /\ place_map = EmptyMap
  /\ place_config = PlacementConfigOf(ServerOptions)
  /\ place_iter = <<>>
  /\ place_first = <<>>
  /\ place_second = <<>>
  /\ place_kind = "none"

\* A layer map (a HashMap<String, i32> with its own iteration order) and a
\* PlacementConfig, before place_all_vertices is called on them.
PlaceStart ==
  /\ place_pc = "ready"
  /\ place_map \in LayerMaps
  /\ place_config \in {PlacementConfigOf(TestOptions),
                        PlacementConfigOf(ServerOptions)}
  /\ place_iter \in Orders(DOMAIN place_map)
  /\ place_first = <<>>
  /\ place_second = <<>>
  /\ place_kind = "none"

\* No call of has_cycle or is_dag.
CycleOff ==
  /\ hc_pc = "off"
  /\ hc_has_cycle = "none"
  /\ hc_is_dag = "none"

\* No ParallelTopoSort.
TopoOff ==
  /\ ts_pc = "off"
  /\ ts_worker_count = 1
  /\ ts_batch_size = 1
  /\ ts_in_degrees = EmptyMap
  /\ ts_queue = <<>>
  /\ ts_result = <<>>
  /\ ts_level_count = 0
  /\ ts_outcome = "none"
  /\ ts_order = <<>>
  /\ ts_valid = "none"

\* No SIMDLongestPath.
PathOff ==
  /\ lp_pc = "off"
  /\ lp_simd_enabled = FALSE
  /\ lp_topo_order = <<>>
  /\ lp_path = <<>>
  /\ lp_valid = "none"

\* No graph and no call on one.
\* No add_edge call made yet.
NoCall == [seq |-> 0, source |-> 0, target |-> 0, result |-> "none",
           vertices |-> {}, edges |-> <<>>]

\* No GraphBuilder.
BuilderOff ==
  /\ gb_pc = "off"
  /\ gb_vertices = {}
  /\ gb_edges = <<>>
  /\ gb_calls = 0
  /\ gb_last = NoCall

\* No call of assign_layers_bfs on a graph of its own.
BfsOff ==
  /\ bfs_pc = "off"
  /\ bfs_layer_map = EmptyMap
  /\ bfs_queue = <<>>
  /\ bfs_processed = 0
  /\ bfs_errors = -1

\* No kahn_parallel whose workers are followed step by step.
FrontierOff ==
  /\ fr_pc = "off"
  /\ fr_batch_size = 0
  /\ fr_in_degrees = EmptyMap
  /\ fr_level = <<>>
  /\ fr_todo = <<>>
  /\ fr_local = <<>>
  /\ fr_merged = <<>>
  /\ fr_next = <<>>
  /\ fr_result = <<>>

WalksOff == BfsOff /\ FrontierOff

GraphOff ==
  /\ lib_graph = NoGraph
  /\ TopoOff /\ CycleOff /\ PathOff /\ BuilderOff /\ WalksOff

\* GraphBuilder::new
BuilderStart ==
  /\ lib_graph = NoGraph
  /\ gb_pc = "open"
  /\ gb_vertices = {}
  /\ gb_edges = <<>>
  /\ gb_calls = 0
  /\ gb_last = NoCall

\* A path with more edges than an f32 distance can count: the chain
\* 1 -> 2 -> ... -> DistExact + 2, and a last vertex DistExact + 3 below
\* the vertex DistExact of the chain.
LongChain ==
  BuildGraph(Chain(DistExact + 1) \o <<<<DistExact, DistExact + 3>>>>,
             SortedSeq(1..(DistExact + 3)))

\* The topological orders of LongChain: the chain in its order, and the
\* last vertex anywhere behind the vertex DistExact.
LongChainOrders ==
  {[i \in 1..(DistExact + 3) |->
      IF i < k THEN i ELSE IF i = k THEN DistExact + 3 ELSE i - 1] :
     k \in (DistExact + 1)..(DistExact + 3)}

\* SIMDLongestPath::new, a graph, and an order of its vertices (topological
\* or not) as the arguments of find_simd.
PathStart ==
  /\ \/ /\ lib_graph \in GraphInputs
        /\ lp_topo_order \in Orders(Range(lib_graph.vertex_ids))
     \/ /\ lib_graph = LongChain
        /\ lp_topo_order \in LongChainOrders
  /\ lp_pc = "ready"
  /\ lp_simd_enabled \in BOOLEAN
  /\ lp_path = <<>>
  /\ lp_valid = "none"

\* A graph, before has_cycle or is_dag is called on it.
CycleStart ==
  /\ lib_graph \in GraphInputs
  /\ hc_pc = "ready"
  /\ hc_has_cycle = "none"
  /\ hc_is_dag = "none"

\* A graph, and the arguments of ParallelTopoSort::new.
GraphStart ==
  /\ lib_graph \in GraphInputs
  /\ CycleOff
  /\ PathOff
  /\ BuilderOff
  /\ WalksOff
  /\ ts_pc = "new"
  /\ ts_worker_count \in 0..MaxTopoWorkers
  /\ ts_batch_size \in 0..MaxTopoBatch
  /\ ts_in_degrees = EmptyMap
  /\ ts_queue = <<>>
  /\ ts_result = <<>>
  /\ ts_level_count = 0
  /\ ts_outcome = "none"
  /\ ts_order = <<>>
  /\ ts_valid = "none"

\* The LayoutResponse of a request not answered yet.
NoResponse ==
  [success |-> FALSE, error_message |-> "", positions |-> <<>>,
   statistics |-> FALSE]

\* No request to the gRPC server.
ServerOff ==
  /\ srv_pc = "off"
  /\ srv_connected = TRUE
  /\ srv_request = <<>>
  /\ srv_response = NoResponse
  /\ srv_edges = <<>>

\* No call of load_graph_edges_batch.
LoadOff ==
  /\ ld_pc = "off"
  /\ ld_attempt = 0
  /\ ld_page = <<>>
  /\ ld_edges = <<>>
  /\ ld_executes = 0
  /\ ld_query_errors = 0
  /\ ld_timeouts = 0
  /\ ld_row_error = FALSE

\* No call of save_layout_results_with_batch_size.
SaveOff ==
  /\ sv_pc = "off"
  /\ sv_total_positions = 0
  /\ sv_batch_size = 1
  /\ sv_total_batches = 0
  /\ sv_spawned = 0
  /\ sv_permits = 0
  /\ sv_tasks = <<>>
  /\ sv_joined = 0

\* No call of optimize_placement on positions of its own.
OptOff ==
  /\ opt_pc = "off"
  /\ opt_config = [compact_layout |-> TRUE, max_iterations |-> OptMaxIterations]
  /\ opt_input = <<>>
  /\ opt_first = <<>>
  /\ opt_second = <<>>
  /\ opt_passes = 0

\* No call of compute_single_edge_path on positions of its own.
RouteOff ==
  /\ rt_pc = "off"
  /\ rt_source = PlaceVerticesInLayer(0, <<1>>, PlacementConfigOf(ServerOptions))[1]
  /\ rt_target = PlaceVerticesInLayer(0, <<1>>, PlacementConfigOf(ServerOptions))[1]
  /\ rt_config = PlacementConfigOf(ServerOptions)
  /\ rt_options = EdgeRoutingDefault
  /\ rt_path = <<>>

\* The threads that share the MemoryManager.
MemThreads == 1..NumMemThreads

\* MemoryManager::new: no memory in use, no call in progress.
MemNew ==
  /\ current_usage = 0
  /\ mem_pc = [t \in MemThreads |-> "idle"]
  /\ mem_size = [t \in MemThreads |-> 0]
  /\ mem_result = [t \in MemThreads |-> "none"]
  /\ mem_calls = 0

\* No MemoryManager in use.
MemOff == mem_on = FALSE /\ MemNew

\* A MemoryManager shared by the threads, just constructed.
MemStart == mem_on = TRUE /\ MemNew

CallsOff == OptOff /\ RouteOff /\ MemOff

ServicesOff == ServerOff /\ LoadOff /\ SaveOff /\ CallsOff

\* No call on a part of the engine, on the server or on the Neo4j client.
UnitOff == PlaceOff /\ GraphOff /\ ServicesOff

\* A GlobalLayerState in a build of either profile.
Init ==
  GlsNew /\ overflow_checks \in BOOLEAN /\ LayoutOff /\ BatchOff /\ UnitOff

LayoutInit ==
  GlsNew /\ overflow_checks = FALSE /\ LayoutStart /\ BatchOff /\ UnitOff

BatchInit ==
  GlsNew /\ overflow_checks = FALSE /\ LayoutOff /\ BatchStart /\ UnitOff

\* The state in which only the parts of the engine are called.
EngineOff == GlsNew /\ overflow_checks = FALSE /\ LayoutOff /\ BatchOff

PlaceInit == EngineOff /\ PlaceStart /\ GraphOff /\ ServicesOff

GraphInit == EngineOff /\ PlaceOff /\ GraphStart /\ ServicesOff

CycleInit ==
  /\ EngineOff /\ PlaceOff /\ TopoOff /\ PathOff /\ BuilderOff /\ WalksOff
  /\ ServicesOff
  /\ CycleStart

PathInit ==
  /\ EngineOff /\ PlaceOff /\ TopoOff /\ CycleOff /\ BuilderOff /\ WalksOff
  /\ ServicesOff
  /\ PathStart

BuilderInit ==
  /\ EngineOff /\ PlaceOff /\ TopoOff /\ CycleOff /\ PathOff /\ WalksOff
  /\ ServicesOff
  /\ BuilderStart

\* A graph given to assign_layers_bfs, in a build with or without overflow
\* checks.
BfsStart ==
  /\ lib_graph \in GraphInputs
  /\ bfs_pc = "ready"
  /\ bfs_layer_map = EmptyMap
  /\ bfs_queue = <<>>
  /\ bfs_processed = 0
  /\ bfs_errors = -1

\* A graph given to kahn_parallel, and a batch size that par_chunks accepts.
FrontierStart ==
  /\ lib_graph \in GraphInputs
  /\ fr_pc = "ready"
  /\ fr_batch_size \in 1..MaxTopoBatch
  /\ fr_in_degrees = EmptyMap
  /\ fr_level = <<>>
  /\ fr_todo = <<>>
  /\ fr_local = <<>>
  /\ fr_merged = <<>>
  /\ fr_next = <<>>
  /\ fr_result = <<>>

FrontierInit ==
  /\ EngineOff /\ PlaceOff /\ TopoOff /\ CycleOff /\ PathOff /\ BuilderOff
  /\ BfsOff /\ ServicesOff
  /\ FrontierStart

BfsInit ==
  /\ GlsNew /\ overflow_checks \in BOOLEAN /\ LayoutOff /\ BatchOff
  /\ PlaceOff /\ TopoOff /\ CycleOff /\ PathOff /\ BuilderOff /\ FrontierOff
  /\ ServicesOff
  /\ BfsStart

\* GraphLayoutServer::new with the engine options of a configuration
\* (optimize_layout is always true there), and a LayoutRequest; no edges in
\* the request means that they are loaded from Neo4j.
ServerStart ==
  /\ srv_pc = "idle"
  /\ srv_connected \in BOOLEAN
  /\ srv_request \in LayoutInputs
  /\ srv_response = NoResponse
  /\ srv_edges = <<>>
  /\ layout_pc = "off"
  /\ req_edges = <<>>
  /\ engine_options \in {o \in LayoutOptionsSet : o.optimize_layout}
  /\ graph = NoGraph
  /\ topo_order = <<>>
  /\ longest_path = <<>>
  /\ layer_map = EmptyMap
  /\ positions = <<>>
  /\ edge_paths = EmptyMap
  /\ layout_result = NoResult

ServerInit ==
  /\ GlsNew /\ overflow_checks = FALSE /\ BatchOff
  /\ PlaceOff /\ GraphOff /\ LoadOff /\ SaveOff /\ CallsOff
  /\ ServerStart

\* The pages that the paged query can select: a few rows (source, target).
PageInputs == UNION {[1..n -> (1..2) \X (1..2)] : n \in 0..MaxPageRows}

\* load_graph_edges_batch called: the first pass of the for loop.
LoadStart ==
  /\ ld_pc = "attempt"
  /\ ld_attempt = 1
  /\ ld_page \in PageInputs
  /\ ld_edges = <<>>
  /\ ld_executes = 0
  /\ ld_query_errors = 0
  /\ ld_timeouts = 0
  /\ ld_row_error = FALSE

LoadInit ==
  /\ EngineOff /\ PlaceOff /\ GraphOff /\ ServerOff /\ SaveOff /\ CallsOff
  /\ LoadStart

\* The batch sizes given to save_layout_results_with_batch_size: 0, small
\* sizes, and the largest usize.
SaveBatchSizes == (0..MaxSaveBatchSize) \cup {UsizeMax}

\* save_layout_results_with_batch_size called with some positions and a
\* batch size.
SaveStart ==
  /\ sv_pc = "start"
  /\ sv_total_positions \in 0..MaxSavePositions
  /\ sv_batch_size \in SaveBatchSizes
  /\ sv_total_batches = 0
  /\ sv_spawned = 0
  /\ sv_permits = 0
  /\ sv_tasks = <<>>
  /\ sv_joined = 0

SaveInit ==
  /\ EngineOff /\ PlaceOff /\ GraphOff /\ ServerOff /\ LoadOff /\ CallsOff
  /\ SaveStart

\* Positions given to optimize_placement: the placements that
\* place_all_vertices makes, and positions of up to MaxOptPositions
\* vertices in two layers with arbitrary heights (gaps below, at and above
\* 130, equal heights).
PlacedInputs ==
  UNION {{PlaceAllVertices(lm, PlacementConfigOf(o), iter_order) :
            iter_order \in Orders(DOMAIN lm), o \in {TestOptions, ServerOptions}} :
           lm \in LayerMaps}
FreeInputs ==
  UNION {[1..n -> {[vertex_id |-> 1, x |-> l * 240, y |-> y, layer |-> l,
                    level |-> 0] : l \in 0..1, y \in {0, 130, 140, 300}}] :
           n \in 1..MaxOptPositions}

OptStart ==
  /\ opt_pc = "ready"
  /\ opt_config \in [compact_layout : BOOLEAN,
                       max_iterations : (0..MaxOptIterations) \cup {OptMaxIterations}]
  /\ opt_input \in PlacedInputs \cup FreeInputs
  /\ opt_first = <<>>
  /\ opt_second = <<>>
  /\ opt_passes = 0

OptInit ==
  /\ EngineOff /\ PlaceOff /\ GraphOff /\ ServerOff /\ LoadOff /\ SaveOff
  /\ RouteOff /\ MemOff
  /\ OptStart

\* Two positions of the grid of place_vertices_in_layer (in either order of
\* the layers, the same layer included), a PlacementConfig and
\* EdgeRoutingOptions with any threshold, zero and negative ones included.
RoutePositions(config) ==
  {PlaceVerticesInLayer(l, <<1, 2>>, config)[k] :
     l \in 0..MaxRouteLayer, k \in 1..2}
RouteStart ==
  /\ rt_pc = "ready"
  /\ rt_config \in {PlacementConfigOf(TestOptions),
                     PlacementConfigOf(ServerOptions)}
  /\ rt_source \in RoutePositions(rt_config)
  /\ rt_target \in RoutePositions(rt_config)
  /\ rt_options \in [use_polylines : BOOLEAN,
                      polyline_threshold : (-1)..MaxRouteThreshold]
  /\ rt_path = <<>>

RouteInit ==
  /\ EngineOff /\ PlaceOff /\ GraphOff /\ ServerOff /\ LoadOff /\ SaveOff
  /\ OptOff /\ MemOff
  /\ RouteStart

(* ---------------------- GlobalLayerState actions ----------------------- *)
\* GlobalLayerState::add_edges_batch
AddEdgesBatch ==
  /\ pc = "idle"
  /\ nbatches < MaxBatches
  /\ \E edges \in Batches :
       LET s == AddEdgesLoop([layers |-> vertex_layers, out |-> outgoing_edges,
                              inc |-> incoming_edges, dirty |-> dirty_vertices,
                              new_edges |-> 0], edges, 1)
       IN /\ vertex_layers' = s.layers
          /\ outgoing_edges' = s.out
          /\ incoming_edges' = s.inc
          /\ dirty_vertices' = s.dirty
          /\ total_vertices' = Cardinality(DOMAIN s.layers)
          /\ total_edges' = total_edges + s.new_edges
  /\ nbatches' = nbatches + 1
  /\ converged' = FALSE
  /\ propagated' = FALSE
  /\ UNCHANGED <<max_layer, update_iterations, pc, caller, queue,
                 updated_count, iteration, total_updates, last_updates, passes,
                 overflow_checks>>
  /\ UNCHANGED <<layoutVars, batchVars, unitVars>>

\* Mutant: the dirty set is read without being drained.
EnterPropagate_KeepDirty(who) ==
  /\ update_iterations' = update_iterations + 1
  /\ IF dirty_vertices = {}
     THEN /\ last_updates' = 0
          /\ pc' = "idle"
          /\ caller' = "none"
          /\ UNCHANGED <<queue, updated_count, dirty_vertices>>
     ELSE /\ \E q \in Orders(dirty_vertices) : queue' = q
          /\ dirty_vertices' = dirty_vertices
          /\ updated_count' = 0
          /\ pc' = "loop"
          /\ caller' = who
          /\ UNCHANGED last_updates

\* Entry of propagate_layers up to the while loop, for the given caller:
\* returns at once with 0 when nothing is dirty, else fills the queue.
\* The part of the frame of propagate_until_convergence is set by the caller.
EnterPropagate(who) ==
  /\ update_iterations' = update_iterations + 1
  /\ IF dirty_vertices = {}
     THEN /\ last_updates' = 0
          /\ pc' = "idle"
          /\ caller' = "none"
          /\ UNCHANGED <<queue, updated_count, dirty_vertices>>
     ELSE /\ \E q \in Orders(dirty_vertices) : queue' = q
          /\ dirty_vertices' = {}
          /\ updated_count' = 0
          /\ pc' = "loop"
          /\ caller' = who
          /\ UNCHANGED last_updates

\* A direct call of GlobalLayerState::propagate_layers.
PropagateLayers ==
  /\ pc = "idle"
  /\ update_iterations < MaxUpdateIterations
  /\ EnterPropagate("direct")
  /\ propagated' = (propagated \/ dirty_vertices = {})
  /\ UNCHANGED <<vertex_layers, outgoing_edges, incoming_edges, max_layer,
                 total_vertices, total_edges, iteration, total_updates,
                 passes, nbatches, converged, overflow_checks>>
  /\ UNCHANGED <<layoutVars, batchVars, unitVars>>

\* A call of GlobalLayerState::propagate_until_convergence: first iteration
\* of its loop up to the while loop of propagate_layers.
PropagateUntilConvergence ==
  /\ pc = "idle"
  /\ update_iterations < MaxUpdateIterations
  /\ EnterPropagate("puc")
  /\ iteration' = 1
  /\ passes' = 1
  /\ total_updates' = 0
  /\ converged' = (dirty_vertices = {})
  /\ propagated' = (propagated \/ dirty_vertices = {})
  /\ UNCHANGED <<vertex_layers, outgoing_edges, incoming_edges, max_layer,
                 total_vertices, total_edges, nbatches, overflow_checks>>
  /\ UNCHANGED <<layoutVars, batchVars, unitVars>>

\* The next loop iteration overflows an integer: max_pred_layer + 1, or
\* updated_count += 1 when the layer changes.
LayerOverflows == Overflows(vertex_layers, incoming_edges, Head(queue))
CountOverflows ==
  /\ ~LayerOverflows
  /\ NewLayer(vertex_layers, incoming_edges, Head(queue))
       # MapGet(vertex_layers, Head(queue), 0)
  /\ updated_count = UsizeMax

\* One iteration of the while loop of propagate_layers that does not panic.
PropagateStep ==
  /\ pc = "loop"
  /\ queue # <<>>
  /\ ~(overflow_checks /\ (LayerOverflows \/ CountOverflows))
  /\ LET vertex == Head(queue)
         new_layer == NewLayer(vertex_layers, incoming_edges, vertex)
         current_layer == MapGet(vertex_layers, vertex, 0)
     IN IF new_layer # current_layer
        THEN /\ vertex_layers' = MapPut(vertex_layers, vertex, new_layer)
             /\ max_layer' = MaxOf(max_layer, new_layer)
             /\ updated_count' = UsizeAdd(updated_count, 1)
             /\ \E succ \in Pushed(outgoing_edges, vertex) :
                  queue' = Tail(queue) \o succ
        ELSE /\ queue' = Tail(queue)
             /\ UNCHANGED <<vertex_layers, max_layer, updated_count>>
  /\ UNCHANGED <<outgoing_edges, incoming_edges, dirty_vertices,
                 total_vertices, total_edges, update_iterations, pc, caller,
                 iteration, total_updates, last_updates, passes, nbatches,
                 converged, propagated, overflow_checks>>
  /\ UNCHANGED <<layoutVars, batchVars, unitVars>>

\* An integer overflows in a build with overflow checks: the thread panics
\* inside propagate_layers (after the insert into vertex_layers when it is
\* updated_count that overflows).
PropagatePanic ==
  /\ pc = "loop"
  /\ queue # <<>>
  /\ overflow_checks
  /\ LayerOverflows \/ CountOverflows
  /\ pc' = "panicked"
  /\ IF LayerOverflows
     THEN UNCHANGED <<vertex_layers, max_layer>>
     ELSE LET new_layer == NewLayer(vertex_layers, incoming_edges, Head(queue))
          IN /\ vertex_layers' = MapPut(vertex_layers, Head(queue), new_layer)
             /\ max_layer' = MaxOf(max_layer, new_layer)
  /\ queue' = Tail(queue)
  /\ UNCHANGED <<outgoing_edges, incoming_edges,
                 dirty_vertices, total_vertices, total_edges,
                 update_iterations, caller, updated_count, iteration,
                 total_updates, last_updates, passes, nbatches, converged,
                 propagated, overflow_checks>>
  /\ UNCHANGED <<layoutVars, batchVars, unitVars>>

\* The queue is empty: propagate_layers returns updated_count.  Under
\* propagate_until_convergence the loop goes on: break on 0 updates or on the
\* iteration cap, else the next propagate_layers call is entered.
PropagateReturn ==
  /\ pc = "loop"
  /\ queue = <<>>
  /\ IF caller = "direct"
     THEN /\ last_updates' = updated_count
          /\ pc' = "idle"
          /\ caller' = "none"
          /\ UNCHANGED <<update_iterations, dirty_vertices, queue,
                         updated_count, iteration, total_updates, passes,
                         converged>>
     ELSE /\ total_updates' = UsizeAdd(total_updates, updated_count)
          /\ IF updated_count = 0 \/ iteration >= MaxIterations
             THEN /\ last_updates' = updated_count
                  /\ pc' = "idle"
                  /\ caller' = "none"
                  /\ converged' = TRUE
                  /\ UNCHANGED <<update_iterations, dirty_vertices, queue,
                                 updated_count, iteration, passes>>
             ELSE /\ iteration' = iteration + 1
                  /\ passes' = passes + 1
                  /\ EnterPropagate("puc")
                  /\ converged' = (dirty_vertices = {})
  /\ propagated' = TRUE
  /\ UNCHANGED <<vertex_layers, outgoing_edges, incoming_edges, max_layer,
                 total_vertices, total_edges, nbatches, overflow_checks>>
  /\ UNCHANGED <<layoutVars, batchVars, unitVars>>

Next ==
  \/ AddEdgesBatch
  \/ PropagateLayers
  \/ PropagateUntilConvergence
  \/ PropagateStep
  \/ PropagatePanic
  \/ PropagateReturn

Spec == Init /\ [][Next]_vars

\* The thread that is inside propagate_layers keeps running.
SpecFair ==
  Spec /\ WF_vars(PropagateStep \/ PropagatePanic \/ PropagateReturn)

(* ------------------------ compute_layout steps ------------------------- *)
\* compute_layout, step 1: validate_edges.
StepValidateEdges ==
  /\ layout_pc = "start"
  /\ IF ValidateEdges(req_edges) = "ok"
     THEN layout_pc' = "validated" /\ UNCHANGED layout_result
     ELSE /\ layout_pc' = "failed"
          /\ layout_result' = ErrorResult(ValidateEdges(req_edges))
  /\ UNCHANGED <<req_edges, engine_options, graph, topo_order, longest_path,
                 layer_map, positions, edge_paths>>
  /\ UNCHANGED <<glsVars, batchVars, unitVars>>

\* compute_layout, step 2: build_graph.
StepBuildGraph ==
  /\ layout_pc = "validated"
  /\ LET es == UniqueValidEdges(req_edges, 1, <<>>)
     IN \E vorder \in Orders(BuilderVertices(es)) :
          graph' = BuildGraph(es, vorder)
  /\ layout_pc' = "built"
  /\ UNCHANGED <<req_edges, engine_options, topo_order, longest_path,
                 layer_map, positions, edge_paths, layout_result>>
  /\ UNCHANGED <<glsVars, batchVars, unitVars>>

\* compute_layout, step 3: ParallelTopoSort::compute_parallel; its error
\* ends the request.
StepTopoSort ==
  /\ layout_pc = "built"
  /\ IF KahnFails(graph)
     THEN /\ layout_pc' = "failed"
          /\ layout_result' = ErrorResult("Cycle")
          /\ UNCHANGED topo_order
     ELSE /\ \E o \in KahnOrders(graph) : topo_order' = o
          /\ layout_pc' = "sorted"
          /\ UNCHANGED layout_result
  /\ UNCHANGED <<req_edges, engine_options, graph, longest_path, layer_map,
                 positions, edge_paths>>
  /\ UNCHANGED <<glsVars, batchVars, unitVars>>

\* compute_layout, step 4: SIMDLongestPath::find_simd.
StepLongestPath ==
  /\ layout_pc = "sorted"
  /\ longest_path' = FindSimd(graph, topo_order, engine_options.enable_simd)
  /\ layout_pc' = "pathed"
  /\ UNCHANGED <<req_edges, engine_options, graph, topo_order, layer_map,
                 positions, edge_paths, layout_result>>
  /\ UNCHANGED <<glsVars, batchVars, unitVars>>

\* place_vertices, step 1: assign_layers_bfs.
StepAssignLayers ==
  /\ layout_pc = "pathed"
  /\ layer_map' = AssignLayersBfs(graph)
  /\ layout_pc' = "layered"
  /\ UNCHANGED <<req_edges, engine_options, graph, topo_order, longest_path,
                 positions, edge_paths, layout_result>>
  /\ UNCHANGED <<glsVars, batchVars, unitVars>>

\* place_vertices, step 2: place_all_vertices (an empty layer map returns
\* at once with nothing placed).
StepPlaceVertices ==
  /\ layout_pc = "layered"
  /\ IF DOMAIN layer_map = {}
     THEN layout_pc' = "routed" /\ UNCHANGED positions
     ELSE /\ \E iter_order \in Orders(DOMAIN layer_map) :
               positions' = PlaceAllVertices(layer_map,
                              PlacementConfigOf(engine_options), iter_order)
          /\ layout_pc' = "placed"
  /\ UNCHANGED <<req_edges, engine_options, graph, topo_order, longest_path,
                 layer_map, edge_paths, layout_result>>
  /\ UNCHANGED <<glsVars, batchVars, unitVars>>

\* place_vertices, step 3: optimize_placement when compact_layout is set.
StepOptimize ==
  /\ layout_pc = "placed"
  /\ positions' =
       IF OptimizationOptionsOf(engine_options).compact_layout
       THEN OptimizePlacement(positions, OptimizationOptionsOf(engine_options))
       ELSE positions
  /\ layout_pc' = "optimized"
  /\ UNCHANGED <<req_edges, engine_options, graph, topo_order, longest_path,
                 layer_map, edge_paths, layout_result>>
  /\ UNCHANGED <<glsVars, batchVars, unitVars>>

\* place_vertices, step 4: compute_edge_paths.
StepEdgePaths ==
  /\ layout_pc = "optimized"
  /\ edge_paths' = ComputeEdgePaths(positions, graph,
                     PlacementConfigOf(engine_options), EdgeRoutingDefault)
  /\ layout_pc' = "routed"
  /\ UNCHANGED <<req_edges, engine_options, graph, topo_order, longest_path,
                 layer_map, positions, layout_result>>
  /\ UNCHANGED <<glsVars, batchVars, unitVars>>

\* compute_layout, step 5: the LayoutResult (positions, statistics, and the
\* edge paths in the metadata).  The metadata names the path of (s, t) by
\* the string "s->t", which names one edge as long as no id contains "->";
\* the ids of the model do not, so the paths stay keyed by the pair.
StepFinish ==
  /\ layout_pc = "routed"
  /\ layout_result' =
       [status |-> "ok", positions |-> positions, edge_paths |-> edge_paths,
        longest_path_length |-> Len(longest_path),
        vertices_processed |-> Len(graph.vertex_ids),
        edges_processed |-> Len(req_edges)]
  /\ layout_pc' = "done"
  /\ UNCHANGED <<req_edges, engine_options, graph, topo_order, longest_path,
                 layer_map, positions, edge_paths>>
  /\ UNCHANGED <<glsVars, batchVars, unitVars>>

LayoutNext ==
  \/ StepValidateEdges
  \/ StepBuildGraph
  \/ StepTopoSort
  \/ StepLongestPath
  \/ StepAssignLayers
  \/ StepPlaceVertices
  \/ StepOptimize
  \/ StepEdgePaths
  \/ StepFinish

SpecLayout == LayoutInit /\ [][LayoutNext]_vars

(* ------------------------ run_batch_layout steps ----------------------- *)
\* run_batch_layout up to its for loop: get_total_edges_count and the
\* number of batches.  Without batches the function returns at once.
RunBatchLayout ==
  /\ batch_pc = "start"
  /\ total_batches' = (Len(db_edges) + batch_size - 1) \div batch_size
  /\ batch_pc' = IF total_batches' = 0 THEN "done" ELSE "loop"
  /\ UNCHANGED <<db_edges, batch_size, batch_num, all_edges,
                 processed_edges, saved, layouts_run, save_batch_size,
                 batch_positions, batch_slices, db_faults>>
  /\ UNCHANGED <<glsVars, layoutVars, unitVars>>

\* A query of get_total_edges_count or load_graph_edges_batch fails for
\* good: run_batch_layout returns the error.
BatchQueryFails ==
  /\ batch_pc \in {"start", "loop"}
  /\ batch_pc' = "failed"
  /\ UNCHANGED <<db_edges, batch_size, total_batches, batch_num, all_edges,
                 processed_edges, saved, layouts_run, save_batch_size,
                 batch_positions, batch_slices, db_faults>>
  /\ UNCHANGED <<glsVars, layoutVars, unitVars>>

\* total_positions + batch_size does not fit in usize.
TotalBatchesOverflows(total_positions, size) ==
  total_positions + size > UsizeMax

\* (total_positions + batch_size - 1) / batch_size in usize arithmetic
\* without overflow checks, for total_positions > 0 and batch_size > 0.
TotalBatches(total_positions, size) ==
  ((UsizeAdd(total_positions, size) + UsizeMax) % Pow2(UsizeBits))
    \div size

\* The rows that the paged query has at an offset.
PageAt(offset) ==
  SubSeq(db_edges, offset + 1,
         IF offset + batch_size < Len(db_edges) THEN offset + batch_size
         ELSE Len(db_edges))

\* The head of the for loop of run_batch_layout: load_graph_edges_batch
\* returns the page, or the rows it got before a row failed, and the rows
\* are added to all_edges.
BatchLoad ==
  /\ batch_pc = "loop"
  /\ batch_num < total_batches
  /\ \E n \in 0..Len(PageAt(batch_num * batch_size)) :
       /\ n < Len(PageAt(batch_num * batch_size)) => db_faults < MaxDbFaults
       /\ db_faults' = IF n < Len(PageAt(batch_num * batch_size))
                       THEN db_faults + 1 ELSE db_faults
       /\ all_edges' =
            all_edges \o SubSeq(PageAt(batch_num * batch_size), 1, n)
  /\ processed_edges' = processed_edges + batch_size
  /\ batch_pc' = "loaded"
  /\ UNCHANGED <<db_edges, batch_size, total_batches, batch_num, saved,
                 layouts_run, save_batch_size, batch_positions,
                 batch_slices>>
  /\ UNCHANGED <<glsVars, layoutVars, unitVars>>

\* The test of the for loop: this is the last batch, or GroupFactor
\* batches have accumulated.
ProcessDue ==
  batch_num = total_batches - 1 \/ Len(all_edges) >= batch_size * GroupFactor

\* The end of an iteration in which process_edges_batch returned Ok.  After
\* the last iteration the function returns (nothing is left to process
\* then).
IterationEnds ==
  /\ all_edges' = <<>>
  /\ batch_num' = batch_num + 1
  /\ batch_pc' = IF batch_num' = total_batches THEN "done" ELSE "loop"

\* An iteration that does not process: the edges stay in all_edges.
BatchContinue ==
  /\ batch_pc = "loaded"
  /\ ~ProcessDue
  /\ batch_num' = batch_num + 1
  /\ batch_pc' = "loop"
  /\ UNCHANGED <<db_edges, batch_size, total_batches, all_edges,
                 processed_edges, saved, layouts_run, save_batch_size,
                 batch_positions, batch_slices, db_faults>>
  /\ UNCHANGED <<glsVars, layoutVars, unitVars>>

\* process_edges_batch up to the tasks of the save: nothing to do without
\* edges; else the layout of the accumulated edges and the start of
\* save_layout_results_with_batch_size, which returns Ok at once without
\* positions, panics on a batch size of 0, and else spawns one task for
\* each slice of the positions.
BatchLayout ==
  /\ batch_pc = "loaded"
  /\ ProcessDue
  /\ IF all_edges = <<>>
     THEN /\ IterationEnds
          /\ UNCHANGED <<layouts_run, batch_positions, batch_slices>>
     ELSE \E vorder \in LayoutVertexOrders(all_edges) :
          \E iter_order \in IterOrders(all_edges, vorder) :
            LET ps == ResponsePositions(all_edges, BatchLayoutOptions,
                                        iter_order, vorder)
            IN /\ layouts_run' = layouts_run + 1
               /\ IF ps = <<>>
                  THEN /\ IterationEnds
                       /\ UNCHANGED <<batch_positions, batch_slices>>
                  ELSE /\ batch_positions' = ps
                       /\ IF \/ save_batch_size = 0
                             \/ /\ overflow_checks
                                /\ TotalBatchesOverflows(Len(ps),
                                                         save_batch_size)
                          THEN /\ batch_pc' = "panicked"
                               /\ UNCHANGED batch_slices
                          ELSE /\ batch_slices' =
                                    [b \in 1..TotalBatches(Len(ps),
                                                           save_batch_size)
                                       |-> "wait"]
                               /\ batch_pc' = "saving"
                       /\ UNCHANGED <<all_edges, batch_num>>
  /\ UNCHANGED <<db_edges, batch_size, total_batches, processed_edges, saved,
                 save_batch_size, db_faults>>
  /\ UNCHANGED <<glsVars, layoutVars, unitVars>>

\* The tasks of the save that hold a permit: the first MaxParallel
\* unfinished ones.
RunningSlices ==
  {b \in 1..Len(batch_slices) :
     /\ batch_slices[b] = "wait"
     /\ Cardinality({c \in 1..(b - 1) : batch_slices[c] = "wait"})
          < MaxParallel}

\* The positions of the task of batch b.
SlicePositions(b) ==
  SubSeq(batch_positions, (b - 1) * save_batch_size + 1,
         IF b * save_batch_size < Len(batch_positions)
         THEN b * save_batch_size ELSE Len(batch_positions))

\* The transaction of a task of the save commits, with or without retries
\* before.  A task that still runs when the function has returned an error
\* can commit until the runtime is shut down.
BatchSliceCommits ==
  /\ batch_pc \in {"saving", "failed"}
  /\ \E b \in RunningSlices :
       /\ saved' = SaveLayoutResults(saved, SlicePositions(b))
       /\ batch_slices' = [batch_slices EXCEPT ![b] = "ok"]
  /\ UNCHANGED <<batch_pc, db_edges, batch_size, total_batches, batch_num,
                 all_edges, processed_edges, layouts_run, save_batch_size,
                 batch_positions, db_faults>>
  /\ UNCHANGED <<glsVars, layoutVars, unitVars>>

\* A task of the save gives up after its last attempt: it returns Err and
\* its slice is not written.
BatchSliceGivesUp ==
  /\ batch_pc = "saving"
  /\ db_faults < MaxDbFaults
  /\ \E b \in RunningSlices :
       batch_slices' = [batch_slices EXCEPT ![b] = "err"]
  /\ db_faults' = db_faults + 1
  /\ UNCHANGED <<batch_pc, db_edges, batch_size, total_batches, batch_num,
                 all_edges, processed_edges, saved, layouts_run,
                 save_batch_size, batch_positions>>
  /\ UNCHANGED <<glsVars, layoutVars, unitVars>>

\* The loop over the join handles, which starts when every task has been
\* spawned: the tasks are awaited in the order of their batches, and the
\* first error is returned through process_edges_batch and
\* run_batch_layout.  When every task returned Ok the iteration ends.
BatchSaveReturns ==
  /\ batch_pc = "saving"
  /\ Cardinality({b \in 1..Len(batch_slices) : batch_slices[b] = "wait"})
       <= MaxParallel
  /\ LET unsaved == {b \in 1..Len(batch_slices) : batch_slices[b] # "ok"}
     IN IF unsaved = {}
        THEN /\ IterationEnds
             /\ batch_positions' = <<>>
             /\ batch_slices' = <<>>
        ELSE /\ batch_slices[SetMin(unsaved)] = "err"
             /\ batch_pc' = "failed"
             /\ UNCHANGED <<all_edges, batch_num, batch_positions,
                            batch_slices>>
  /\ UNCHANGED <<db_edges, batch_size, total_batches, processed_edges, saved,
                 layouts_run, save_batch_size, db_faults>>
  /\ UNCHANGED <<glsVars, layoutVars, unitVars>>

BatchNext ==
  \/ RunBatchLayout
  \/ BatchQueryFails
  \/ BatchLoad
  \/ BatchContinue
  \/ BatchLayout
  \/ BatchSliceCommits
  \/ BatchSliceGivesUp
  \/ BatchSaveReturns

SpecBatch == BatchInit /\ [][BatchNext]_vars

(* ----------------------- place_all_vertices calls ---------------------- *)
\* The variables that the calls of place_all_vertices leave alone.
placeOthers == <<glsVars, layoutVars, batchVars, graphVars, serviceVars>>

\* The first call of place_all_vertices on the layer map.
PlaceAllFirst ==
  /\ place_pc = "ready"
  /\ place_first' = PlaceAllVertices(place_map, place_config, place_iter)
  /\ place_pc' = "once"
  /\ UNCHANGED <<place_map, place_config, place_iter, place_second,
                 place_kind>>
  /\ UNCHANGED placeOthers

\* A second call on the same HashMap, which has not been modified: it is
\* iterated in the same order.
PlaceAllAgain ==
  /\ place_pc = "once"
  /\ place_second' = PlaceAllVertices(place_map, place_config, place_iter)
  /\ place_kind' = "same"
  /\ place_pc' = "twice"
  /\ UNCHANGED <<place_map, place_config, place_iter, place_first>>
  /\ UNCHANGED placeOthers

\* A second call on another HashMap with equal contents: it has its own
\* RandomState and insertion history, hence its own iteration order.
PlaceAllEqualMap ==
  /\ place_pc = "once"
  /\ \E iter_order \in Orders(DOMAIN place_map) :
       place_second' = PlaceAllVertices(place_map, place_config, iter_order)
  /\ place_kind' = "equal"
  /\ place_pc' = "twice"
  /\ UNCHANGED <<place_map, place_config, place_iter, place_first>>
  /\ UNCHANGED placeOthers

PlaceNext ==
  \/ PlaceAllFirst
  \/ PlaceAllAgain
  \/ PlaceAllEqualMap

SpecPlace == PlaceInit /\ [][PlaceNext]_vars

(* ------------------------- calls on a Graph ---------------------------- *)
\* The variables that the calls on a graph leave alone.
graphOthers ==
  <<glsVars, layoutVars, batchVars, placeVars, cycleVars, pathVars,
    builderVars, walkVars, serviceVars>>

\* ParallelTopoSort::new
TopoSortNew ==
  /\ ts_pc = "new"
  /\ ts_pc' = IF ts_worker_count = 0 \/ ts_batch_size = 0 THEN "rejected"
              ELSE "ready"
  /\ UNCHANGED <<lib_graph, ts_worker_count, ts_batch_size, ts_in_degrees,
                 ts_queue, ts_result, ts_level_count, ts_outcome, ts_order,
                 ts_valid>>
  /\ UNCHANGED graphOthers

\* compute_parallel up to the while loop of kahn_parallel: the in-degrees,
\* and the queue of the vertices with in-degree 0 in the iteration order of
\* the in_degrees HashMap.
ComputeParallel ==
  /\ ts_pc = "ready"
  /\ ts_in_degrees' = InDegrees(lib_graph)
  /\ \E q \in Orders({v \in Range(lib_graph.vertex_ids) :
                         InDegrees(lib_graph)[v] = 0}) : ts_queue' = q
  /\ ts_result' = <<>>
  /\ ts_level_count' = 0
  /\ ts_pc' = "kahn"
  /\ UNCHANGED <<lib_graph, ts_worker_count, ts_batch_size, ts_outcome,
                 ts_order, ts_valid>>
  /\ UNCHANGED graphOthers

\* One iteration of the while loop of kahn_parallel.
KahnLevel ==
  /\ ts_pc = "kahn"
  /\ ts_queue # <<>>
  /\ ts_level_count' = ts_level_count + 1
  /\ \E next_vertices \in ProcessLevelParallel(lib_graph, ts_queue,
                                                ts_in_degrees, ts_batch_size) :
       ts_queue' = next_vertices
  /\ ts_in_degrees' = DegreesAfter(lib_graph, ts_in_degrees,
                                   Chunks(ts_queue, ts_batch_size))
  /\ ts_result' = ts_result \o ts_queue
  /\ UNCHANGED <<lib_graph, ts_pc, ts_worker_count, ts_batch_size,
                 ts_outcome, ts_order, ts_valid>>
  /\ UNCHANGED graphOthers

\* The queue is empty: the cycle check of kahn_parallel, and the return of
\* compute_parallel.
KahnReturn ==
  /\ ts_pc = "kahn"
  /\ ts_queue = <<>>
  /\ ts_outcome' = KahnOutcome(ts_result, lib_graph)
  /\ ts_order' = IF ts_outcome' = "ok" THEN ts_result ELSE <<>>
  /\ ts_pc' = "sorted"
  /\ UNCHANGED <<lib_graph, ts_worker_count, ts_batch_size, ts_in_degrees,
                 ts_queue, ts_result, ts_level_count, ts_valid>>
  /\ UNCHANGED graphOthers

\* validate_result on the order that compute_parallel returned.
ValidateResultCall ==
  /\ ts_pc = "sorted"
  /\ ts_outcome = "ok"
  /\ ts_valid' = ValidateResult(lib_graph, ts_order)
  /\ ts_pc' = "validated"
  /\ UNCHANGED <<lib_graph, ts_worker_count, ts_batch_size, ts_in_degrees,
                 ts_queue, ts_result, ts_level_count, ts_outcome, ts_order>>
  /\ UNCHANGED graphOthers

GraphNext ==
  \/ TopoSortNew
  \/ ComputeParallel
  \/ KahnLevel
  \/ KahnReturn
  \/ ValidateResultCall

SpecGraph == GraphInit /\ [][GraphNext]_vars

\* The thread that is inside compute_parallel keeps running.
SpecGraphFair == SpecGraph /\ WF_vars(KahnLevel \/ KahnReturn)

(* ----------------------- GraphBuilder calls ---------------------------- *)
\* The variables that the calls on a GraphBuilder leave alone.
builderOthers ==
  <<glsVars, layoutVars, batchVars, placeVars, topoVars, cycleVars, pathVars,
    walkVars, serviceVars>>

\* A call of GraphBuilder::add_edge.
AddEdgeCall ==
  /\ gb_pc = "open"
  /\ gb_calls < MaxBuilderCalls
  /\ \E source \in 1..NumBuilderVertices, target \in 1..NumBuilderVertices :
       LET r == AddEdge(gb_vertices, gb_edges, source, target)
       IN /\ gb_vertices' = r.vertices
          /\ gb_edges' = r.edges
          /\ gb_last' = [seq |-> gb_calls + 1, source |-> source,
                         target |-> target, result |-> r.result,
                         vertices |-> gb_vertices, edges |-> gb_edges]
  /\ gb_calls' = gb_calls + 1
  /\ UNCHANGED <<lib_graph, gb_pc>>
  /\ UNCHANGED builderOthers

\* A call of GraphBuilder::add_vertex.
AddVertexCall ==
  /\ gb_pc = "open"
  /\ gb_calls < MaxBuilderCalls
  /\ \E vertex_id \in 1..NumBuilderVertices :
       gb_vertices' = gb_vertices \cup {vertex_id}
  /\ gb_calls' = gb_calls + 1
  /\ UNCHANGED <<lib_graph, gb_pc, gb_edges, gb_last>>
  /\ UNCHANGED builderOthers

\* GraphBuilder::build; the vertices get their indices in the iteration
\* order of the HashSet.
BuildCall ==
  /\ gb_pc = "open"
  /\ \E vorder \in Orders(gb_vertices) :
       lib_graph' = BuildGraph(gb_edges, vorder)
  /\ gb_pc' = "built"
  /\ UNCHANGED <<gb_vertices, gb_edges, gb_calls, gb_last>>
  /\ UNCHANGED builderOthers

BuilderNext ==
  \/ AddEdgeCall
  \/ AddVertexCall
  \/ BuildCall

SpecBuilder == BuilderInit /\ [][BuilderNext]_vars

(* --------------------- has_cycle and is_dag calls ---------------------- *)
\* The variables that has_cycle and is_dag leave alone.
cycleOthers ==
  <<glsVars, layoutVars, batchVars, placeVars, topoVars, pathVars,
    builderVars, walkVars, serviceVars>>

\* A call of Graph::has_cycle.
HasCycleCall ==
  /\ hc_pc = "ready"
  /\ hc_has_cycle = "none"
  /\ hc_has_cycle' = IF HasCycle(lib_graph) THEN "yes" ELSE "no"
  /\ UNCHANGED <<lib_graph, hc_pc, hc_is_dag>>
  /\ UNCHANGED cycleOthers

\* A call of Graph::is_dag.
IsDagCall ==
  /\ hc_pc = "ready"
  /\ hc_is_dag = "none"
  /\ hc_is_dag' = IF IsDag(lib_graph) THEN "yes" ELSE "no"
  /\ UNCHANGED <<lib_graph, hc_pc, hc_has_cycle>>
  /\ UNCHANGED cycleOthers

CycleNext ==
  \/ HasCycleCall
  \/ IsDagCall

SpecCycle == CycleInit /\ [][CycleNext]_vars

(* ---------------------- SIMDLongestPath calls -------------------------- *)
\* The variables that the calls on SIMDLongestPath leave alone.
pathOthers ==
  <<glsVars, layoutVars, batchVars, placeVars, topoVars, cycleVars,
    builderVars, walkVars, serviceVars>>

\* A call of SIMDLongestPath::find_simd.
FindSimdCall ==
  /\ lp_pc = "ready"
  /\ IF (IF lp_simd_enabled
         THEN FindSimdOptimizedLoops(lib_graph, lp_topo_order)
         ELSE FindSimdLoops(lib_graph, lp_topo_order))
     THEN lp_pc' = "looping" /\ lp_path' = lp_path
     ELSE /\ lp_path' = FindSimd(lib_graph, lp_topo_order, lp_simd_enabled)
          /\ lp_pc' = "found"
  /\ UNCHANGED <<lib_graph, lp_simd_enabled, lp_topo_order, lp_valid>>
  /\ UNCHANGED pathOthers

\* A call of SIMDLongestPath::validate_path on the path found.
ValidatePathCall ==
  /\ lp_pc = "found"
  /\ lp_valid' = ValidatePath(lib_graph, lp_path)
  /\ lp_pc' = "validated"
  /\ UNCHANGED <<lib_graph, lp_simd_enabled, lp_topo_order, lp_path>>
  /\ UNCHANGED pathOthers

PathNext ==
  \/ FindSimdCall
  \/ ValidatePathCall

SpecPath == PathInit /\ [][PathNext]_vars

(* ------------------ GraphLayoutServer::compute_layout ------------------ *)
\* Neo4jClient::execute_query: an error when not connected, else no
\* records.
ExecuteQuery(connected) ==
  IF connected THEN [error |-> "", records |-> <<>>]
  ELSE [error |-> "NotConnected", records |-> <<>>]

\* Mutant: the error answer claims success.
ErrorResponse_Success(e) ==
  [success |-> TRUE, error_message |-> "", positions |-> <<>>,
   statistics |-> FALSE]

\* The Err(e) arm of compute_layout; the message is e.to_string(), here
\* the name of the error.
ErrorResponse(e) ==
  [success |-> FALSE, error_message |-> e, positions |-> <<>>,
   statistics |-> FALSE]

\* The positions of the answer: those of the LayoutResult, with the status
\* StatusPlaced.
ResponsePositionsOf(ps) ==
  [i \in 1..Len(ps) |->
     [article_id |-> ps[i].vertex_id, layer |-> ps[i].layer,
      level |-> ps[i].level, x |-> ps[i].x, y |-> ps[i].y,
      status |-> "StatusPlaced"]]

\* The Ok arm of compute_layout.
OkResponse(result) ==
  [success |-> TRUE, error_message |-> "",
   positions |-> ResponsePositionsOf(result.positions), statistics |-> TRUE]

\* The variables that the steps of compute_layout before the engine and
\* the calls of connect and close leave alone.
serverOthers ==
  <<glsVars, batchVars, placeVars, graphVars, loadVars, saveVars, callVars>>

\* Neo4jClient::connect, which any task that holds the client can call.
Neo4jConnect ==
  /\ srv_pc # "off"
  /\ srv_connected' = TRUE
  /\ UNCHANGED <<srv_pc, srv_request, srv_response, srv_edges>>
  /\ UNCHANGED <<layoutVars, serverOthers>>

\* Neo4jClient::close.
Neo4jClose ==
  /\ srv_pc # "off"
  /\ srv_connected' = FALSE
  /\ UNCHANGED <<srv_pc, srv_request, srv_response, srv_edges>>
  /\ UNCHANGED <<layoutVars, serverOthers>>

\* compute_layout up to its first await inside the async block: the edges
\* of the request are taken, or load_edges_from_neo4j is called when the
\* request has none.
ServerReceive ==
  /\ srv_pc = "idle"
  /\ IF srv_request = <<>>
     THEN srv_pc' = "loading" /\ UNCHANGED srv_edges
     ELSE srv_pc' = "locking" /\ srv_edges' = srv_request
  /\ UNCHANGED <<srv_connected, srv_request, srv_response>>
  /\ UNCHANGED <<layoutVars, serverOthers>>

\* execute_query reads connected: its error is answered at once, else the
\* query sleeps.
ServerExecuteQuery ==
  /\ srv_pc = "loading"
  /\ IF ExecuteQuery(srv_connected).error # ""
     THEN /\ srv_response' = ErrorResponse(ExecuteQuery(srv_connected).error)
          /\ srv_pc' = "responded"
     ELSE /\ srv_pc' = "querying"
          /\ UNCHANGED srv_response
  /\ UNCHANGED <<srv_connected, srv_request, srv_edges>>
  /\ UNCHANGED <<layoutVars, serverOthers>>

\* execute_query returns its records after the sleep, whatever connected
\* is by then, and load_edges_from_neo4j makes edges of them.
ServerQueryReturns ==
  /\ srv_pc = "querying"
  /\ srv_edges' = ExecuteQuery(TRUE).records
  /\ srv_pc' = "locking"
  /\ UNCHANGED <<srv_connected, srv_request, srv_response>>
  /\ UNCHANGED <<layoutVars, serverOthers>>

\* The write lock of the engine is taken and the engine is called with the
\* edges.
ServerStartEngine ==
  /\ srv_pc = "locking"
  /\ req_edges' = srv_edges
  /\ layout_pc' = "start"
  /\ srv_pc' = "computing"
  /\ UNCHANGED <<srv_connected, srv_request, srv_response, srv_edges>>
  /\ UNCHANGED <<engine_options, graph, topo_order, longest_path, layer_map,
                 positions, edge_paths, layout_result>>
  /\ UNCHANGED serverOthers

\* compute_layout after the engine returned: the match on its result.
ServerRespond ==
  /\ srv_pc = "computing"
  /\ layout_pc \in {"done", "failed"}
  /\ srv_response' = IF layout_pc = "done" THEN OkResponse(layout_result)
                     ELSE ErrorResponse(layout_result.status)
  /\ srv_pc' = "responded"
  /\ UNCHANGED <<srv_connected, srv_request, srv_edges>>
  /\ UNCHANGED <<layoutVars, serverOthers>>

ServerNext ==
  \/ Neo4jConnect
  \/ Neo4jClose
  \/ ServerReceive
  \/ ServerExecuteQuery
  \/ ServerQueryReturns
  \/ ServerStartEngine
  \/ LayoutNext
  \/ ServerRespond

SpecServer == ServerInit /\ [][ServerNext]_vars

(* ---------------- Neo4jClient::load_graph_edges_batch ------------------ *)
\* The variables that load_graph_edges_batch leaves alone.
loadOthers ==
  <<glsVars, layoutVars, batchVars, placeVars, graphVars, serverVars,
    saveVars, callVars>>

\* graph.execute returns the row stream: a new edges vector, and the inner
\* loop is entered.
ExecuteOk ==
  /\ ld_pc = "attempt"
  /\ ld_executes' = ld_executes + 1
  /\ ld_edges' = <<>>
  /\ ld_pc' = "rows"
  /\ UNCHANGED <<ld_attempt, ld_page, ld_query_errors, ld_timeouts,
                 ld_row_error>>
  /\ UNCHANGED loadOthers

\* graph.execute returns an error: after the backoff the for loop goes on
\* with the next attempt, and the last attempt returns the error.
ExecuteErr ==
  /\ ld_pc = "attempt"
  /\ ld_executes' = ld_executes + 1
  /\ ld_query_errors' = ld_query_errors + 1
  /\ IF ld_attempt < MaxRetries
     THEN ld_attempt' = ld_attempt + 1 /\ ld_pc' = "attempt"
     ELSE ld_attempt' = ld_attempt /\ ld_pc' = "err"
  /\ UNCHANGED <<ld_page, ld_edges, ld_timeouts, ld_row_error>>
  /\ UNCHANGED loadOthers

\* result.next() gives a row: its edge is pushed.
RowRead ==
  /\ ld_pc = "rows"
  /\ Len(ld_edges) < Len(ld_page)
  /\ ld_edges' = Append(ld_edges, ld_page[Len(ld_edges) + 1])
  /\ UNCHANGED <<ld_pc, ld_attempt, ld_page, ld_executes, ld_query_errors,
                 ld_timeouts, ld_row_error>>
  /\ UNCHANGED loadOthers

\* result.next() gives None: break, and the function returns Ok(edges).
RowEnd ==
  /\ ld_pc = "rows"
  /\ Len(ld_edges) = Len(ld_page)
  /\ ld_pc' = "ok"
  /\ UNCHANGED <<ld_attempt, ld_page, ld_edges, ld_executes, ld_query_errors,
                 ld_timeouts, ld_row_error>>
  /\ UNCHANGED loadOthers

\* result.next() gives an error: it is logged, break, and the function
\* returns Ok(edges).
RowError ==
  /\ ld_pc = "rows"
  /\ ld_row_error' = TRUE
  /\ ld_pc' = "ok"
  /\ UNCHANGED <<ld_attempt, ld_page, ld_edges, ld_executes, ld_query_errors,
                 ld_timeouts>>
  /\ UNCHANGED loadOthers

\* result.next() does not answer within the timeout.  Before the last
\* attempt the continue, after the backoff, goes on with the innermost
\* loop: the same stream is read again, with attempt and edges as they
\* are.  In the last attempt the function returns the error.
RowTimeout ==
  /\ ld_pc = "rows"
  /\ ld_timeouts < MaxRowTimeouts
  /\ ld_timeouts' = ld_timeouts + 1
  /\ ld_pc' = IF ld_attempt < MaxRetries THEN "rows" ELSE "err"
  /\ UNCHANGED <<ld_attempt, ld_page, ld_edges, ld_executes, ld_query_errors,
                 ld_row_error>>
  /\ UNCHANGED loadOthers

LoadNext ==
  \/ ExecuteOk
  \/ ExecuteErr
  \/ RowRead
  \/ RowEnd
  \/ RowError
  \/ RowTimeout

SpecLoad == LoadInit /\ [][LoadNext]_vars

(* ----------- Neo4jClient::save_layout_results_with_batch_size ---------- *)
\* The variables that save_layout_results_with_batch_size leaves alone.
saveOthers ==
  <<glsVars, layoutVars, batchVars, placeVars, graphVars, serverVars,
    loadVars, callVars>>

\* Mutant: acquire_owned never waits.
AcquireReady_NoLimit(permits) == TRUE

\* Semaphore::acquire_owned returns when a permit is free.
AcquireReady(permits) == permits > 0

\* A task just spawned.
NewTask == [state |-> "run", attempt |-> 0, tries |-> 0]

\* The error arms of the task's loop: the error is returned when attempt
\* has reached max_attempts, else attempt grows and, after the backoff,
\* the loop starts again.
AfterFailure(task) ==
  IF task.attempt >= MaxAttempts
  THEN [task EXCEPT !.state = "err"]
  ELSE [task EXCEPT !.state = "run", !.attempt = task.attempt + 1]

\* A task that returns drops its permit.
PermitsAfter(task, permits) ==
  IF task.state \in {"ok", "err"} THEN permits + 1 ELSE permits

\* The function up to its for loop: no positions return Ok at once; the
\* division by a batch size of 0 panics; when the sum overflows, a build
\* with overflow checks panics and one without goes on with the wrapped
\* number of batches.  With no batches both loops are skipped and the
\* function returns Ok.
SaveCall ==
  /\ sv_pc = "start"
  /\ IF sv_total_positions = 0
     THEN sv_pc' = "ok" /\ UNCHANGED <<sv_total_batches, sv_permits>>
     ELSE IF sv_batch_size = 0
     THEN sv_pc' = "panic" /\ UNCHANGED <<sv_total_batches, sv_permits>>
     ELSE \/ /\ TotalBatchesOverflows(sv_total_positions, sv_batch_size)
             /\ sv_pc' = "panic"
             /\ UNCHANGED <<sv_total_batches, sv_permits>>
          \/ /\ sv_total_batches' =
                   TotalBatches(sv_total_positions, sv_batch_size)
             /\ sv_permits' = MaxParallel
             /\ sv_pc' = IF sv_total_batches' = 0 THEN "ok" ELSE "spawning"
  /\ UNCHANGED <<sv_total_positions, sv_batch_size, sv_spawned, sv_tasks,
                 sv_joined>>
  /\ UNCHANGED saveOthers

\* One pass of the for loop: a permit is acquired and the task of the
\* batch is spawned with it.
SaveSpawn ==
  /\ sv_pc = "spawning"
  /\ sv_spawned < sv_total_batches
  /\ AcquireReady(sv_permits)
  /\ sv_permits' = sv_permits - 1
  /\ sv_tasks' = Append(sv_tasks, NewTask)
  /\ sv_spawned' = sv_spawned + 1
  /\ sv_pc' = IF sv_spawned' = sv_total_batches THEN "joining" ELSE "spawning"
  /\ UNCHANGED <<sv_total_positions, sv_batch_size, sv_total_batches,
                 sv_joined>>
  /\ UNCHANGED saveOthers

\* A task at the top of its loop calls start_txn: the transaction begins,
\* or the call fails.
TaskStartTxn ==
  /\ \E b \in 1..Len(sv_tasks) :
       /\ sv_tasks[b].state = "run"
       /\ \E started \in BOOLEAN :
            LET tried == [sv_tasks[b] EXCEPT !.tries = sv_tasks[b].tries + 1]
                task == IF started THEN [tried EXCEPT !.state = "txn"]
                        ELSE AfterFailure(tried)
            IN /\ sv_tasks' = [sv_tasks EXCEPT ![b] = task]
               /\ sv_permits' = PermitsAfter(task, sv_permits)
  /\ UNCHANGED <<sv_pc, sv_total_positions, sv_batch_size, sv_total_batches,
                 sv_spawned, sv_joined>>
  /\ UNCHANGED saveOthers

\* The transaction of a task ends: run and commit succeed and the task
\* returns Ok, or one of them fails.
TaskTxnEnd ==
  /\ \E b \in 1..Len(sv_tasks) :
       /\ sv_tasks[b].state = "txn"
       /\ \E committed \in BOOLEAN :
            LET task == IF committed THEN [sv_tasks[b] EXCEPT !.state = "ok"]
                        ELSE AfterFailure(sv_tasks[b])
            IN /\ sv_tasks' = [sv_tasks EXCEPT ![b] = task]
               /\ sv_permits' = PermitsAfter(task, sv_permits)
  /\ UNCHANGED <<sv_pc, sv_total_positions, sv_batch_size, sv_total_batches,
                 sv_spawned, sv_joined>>
  /\ UNCHANGED saveOthers

\* One pass of the loop over the join handles: the next task is awaited;
\* its error is returned, and after the last handle the function returns
\* Ok.
SaveJoin ==
  /\ sv_pc = "joining"
  /\ sv_joined < sv_total_batches
  /\ sv_tasks[sv_joined + 1].state \in {"ok", "err"}
  /\ IF sv_tasks[sv_joined + 1].state = "err"
     THEN sv_pc' = "err" /\ UNCHANGED sv_joined
     ELSE /\ sv_joined' = sv_joined + 1
          /\ sv_pc' = IF sv_joined' = sv_total_batches THEN "ok"
                      ELSE "joining"
  /\ UNCHANGED <<sv_total_positions, sv_batch_size, sv_total_batches,
                 sv_spawned, sv_permits, sv_tasks>>
  /\ UNCHANGED saveOthers

SaveNext ==
  \/ SaveCall
  \/ SaveSpawn
  \/ TaskStartTxn
  \/ TaskTxnEnd
  \/ SaveJoin

SpecSave == SaveInit /\ [][SaveNext]_vars

\* The runtime keeps running the function and its tasks, and every call to
\* the database returns.
SpecSaveFair == SpecSave /\ WF_vars(SaveNext)

(* ----------------- properties of GlobalLayerState ---------------------- *)
Succs(E, S) == {e[2] : e \in {d \in E : d[1] \in S}}
Preds(E, v) == {e[1] : e \in {d \in E : d[2] = v}}

RECURSIVE Closure(_, _)
Closure(E, S) ==
  LET T == S \cup Succs(E, S) IN IF T = S THEN S ELSE Closure(E, T)

\* No vertex reaches itself along the edges of E.
Acyclic(E) == \A e \in E : e[1] \notin Closure(E, {e[2]})

\* propagate_until_convergence has returned after the last batch.
Converged == converged /\ pc = "idle"

\* C1: layer monotonicity.  For an acyclic stored edge set, however it was
\* split into batches, once propagate_until_convergence has returned after
\* the last batch every stored edge (s, t) has layer(s) < layer(t) and
\* validate_layers returns 0.
C1_LayerMonotonicity ==
  (Converged /\ Acyclic(StoredEdges)) =>
    /\ \A e \in StoredEdges : vertex_layers[e[1]] < vertex_layers[e[2]]
    /\ ValidateLayers(vertex_layers, outgoing_edges) = 0

\* Two batches, three edges with a path of two edges, converged.
C1_Witness ==
  /\ Converged
  /\ Acyclic(StoredEdges)
  /\ nbatches = MaxBatches
  /\ Cardinality(StoredEdges) >= 3
  /\ max_layer >= 2
  /\ ValidateLayers(vertex_layers, outgoing_edges) = 0

\* The while loop of propagate_layers run to the end, successors pushed in
\* ascending order.
RECURSIVE RunQueue(_, _, _, _)
RunQueue(layers, out, inc, q) ==
  IF q = <<>> THEN layers
  ELSE LET vertex == Head(q)
           new_layer == NewLayer(layers, inc, vertex)
       IN IF new_layer # MapGet(layers, vertex, 0)
          THEN RunQueue(MapPut(layers, vertex, new_layer), out, inc,
                        Tail(q) \o SortedSeq(MapGet(out, vertex, {})))
          ELSE RunQueue(layers, out, inc, Tail(q))

\* The layer map after new(), one add_edges_batch with all of E and one
\* propagate_until_convergence.
OneBatchLayers(E) ==
  LET edges == CHOOSE q \in Orders(E) : TRUE
      s == AddEdgesLoop([layers |-> EmptyMap, out |-> EmptyMap,
                         inc |-> EmptyMap, dirty |-> {}, new_edges |-> 0],
                        edges, 1)
  IN RunQueue(s.layers, s.out, s.inc, SortedSeq(s.dirty))

\* C2: batch idempotence.  For an acyclic edge set, the layer map after the
\* last propagate_until_convergence is the one that a single add_edges_batch
\* with the whole set gives, whatever the split into batches, their order,
\* and whether the earlier batches were propagated or not.
C2_BatchIdempotence ==
  (Converged /\ Acyclic(StoredEdges)) =>
    vertex_layers = OneBatchLayers(StoredEdges)

\* The edge set arrived in two batches, the first of them was propagated
\* on its own, and the second one changed layers.
C2_Witness ==
  /\ Converged
  /\ Acyclic(StoredEdges)
  /\ nbatches = MaxBatches
  /\ update_iterations >= 3
  /\ last_updates = 0
  /\ max_layer >= 2
  /\ vertex_layers = OneBatchLayers(StoredEdges)

\* Number of edges on the longest path of E that ends in v.
RECURSIVE LongestPathTo(_, _)
LongestPathTo(E, v) ==
  IF Preds(E, v) = {} THEN 0
  ELSE 1 + SetMax({LongestPathTo(E, p) : p \in Preds(E, v)})

\* C3: fixed point of the layering.  After propagate_until_convergence on an
\* acyclic edge set, the layer of a vertex is 0 if it has no incoming edge
\* and else 1 + the maximum layer of its predecessors, which is the number
\* of edges on the longest path from a source to it.
C3_FixedPoint ==
  (Converged /\ Acyclic(StoredEdges)) =>
    \A v \in DOMAIN vertex_layers :
      /\ vertex_layers[v] =
           IF Preds(StoredEdges, v) = {} THEN 0
           ELSE 1 + SetMax({vertex_layers[p] : p \in Preds(StoredEdges, v)})
      /\ vertex_layers[v] = LongestPathTo(StoredEdges, v)

\* The diamond 1->2, 1->3, 2->4, 3->4 with layers 0, 1, 1, 2.
C3_Witness ==
  /\ Converged
  /\ StoredEdges = {<<1, 2>>, <<1, 3>>, <<2, 4>>, <<3, 4>>}
  /\ vertex_layers = <<0, 1, 1, 2>>

\* C4: sources are layer 0.  In every reachable state, between and inside
\* the calls, a vertex without an incoming stored edge has layer 0.
C4_SourcesLayerZero ==
  \A v \in DOMAIN vertex_layers :
    MapGet(incoming_edges, v, {}) = {} => vertex_layers[v] = 0

\* Inside a propagation of the second batch, with layers up to 2 stored and
\* a source that has an outgoing edge.
C4_Witness ==
  /\ pc = "loop"
  /\ nbatches = MaxBatches
  /\ max_layer >= 2
  /\ \E v \in DOMAIN vertex_layers :
       /\ MapGet(incoming_edges, v, {}) = {}
       /\ MapGet(outgoing_edges, v, {}) # {}
       /\ vertex_layers[v] = 0

\* C5: propagate_until_convergence terminates on every finite edge set,
\* cyclic ones included: a call that has entered propagate_layers gets back
\* to the caller.
C5_Terminates == (pc = "loop") ~> (pc = "idle")

\* Inside the first pass of propagate_until_convergence on a cyclic edge
\* set, after twice as many layer updates as there are vertices.
C5_Witness ==
  /\ pc = "loop"
  /\ caller = "puc"
  /\ ~Acyclic(StoredEdges)
  /\ passes = 1
  /\ updated_count > 2 * NumVertices

\* C6: layers never decrease.  While the stored edge set is acyclic, no
\* step of add_edges_batch or propagate_layers lowers the layer of a vertex,
\* and every update made by propagate_layers stores a strictly larger layer.
C6_Step ==
  Acyclic(StoredEdges)' =>
    /\ \A v \in DOMAIN vertex_layers : vertex_layers'[v] >= vertex_layers[v]
    /\ (pc = "loop" /\ queue # <<>> /\ updated_count' # updated_count) =>
         vertex_layers'[Head(queue)] > vertex_layers[Head(queue)]
C6_LayersNeverDecrease == [][C6_Step]_vars

\* A later propagation round has raised layers on an acyclic edge set.
C6_Witness ==
  /\ pc = "loop"
  /\ Acyclic(StoredEdges)
  /\ nbatches = MaxBatches
  /\ update_iterations >= 2
  /\ updated_count >= 2
  /\ max_layer >= 3

\* A step in which a propagate_layers call is entered, and one in which a
\* propagate_layers call returns (both when the call returns at once).
CallStarts == update_iterations' = update_iterations + 1
CallReturns == pc' = "idle" /\ (pc = "loop" \/ CallStarts)

\* The call that is entered follows a propagate_layers call directly: inside
\* propagate_until_convergence (entered in the step in which the call
\* before it returns), or from outside with no add_edges_batch since the
\* last return.
FollowsCall == pc = "loop" \/ propagated

C28_Step ==
  /\ CallReturns => dirty_vertices' = {}
  /\ (CallStarts /\ FollowsCall) =>
       /\ pc' = "idle"
       /\ last_updates' = 0
       /\ vertex_layers' = vertex_layers
  /\ (pc' = "idle") => passes' <= 2

\* C28: every propagate_layers call that returns leaves dirty_vertices
\* empty; a propagate_layers call that directly follows another one, with
\* no add_edges_batch in between, returns 0 and changes no layer; when
\* propagate_until_convergence returns it has made at most two
\* propagate_layers calls.
C28_SecondCallIsIdle == [][C28_Step]_vars

\* propagate_until_convergence has returned after two propagate_layers
\* calls: the first one updated layers, the second one returned 0.
C28_Witness ==
  /\ pc = "idle"
  /\ propagated
  /\ passes = 2
  /\ total_updates > 0
  /\ last_updates = 0
  /\ dirty_vertices = {}
  /\ \E v \in DOMAIN vertex_layers : vertex_layers[v] > 0

\* The batches without an edge that has a blank endpoint or is a self-loop.
ValidBatches ==
  UNION {[1..n -> {e \in EdgeInputs : ValidEdge(e)}] : n \in 0..MaxBatchLen}

\* The step adds to the state what add_edges_batch adds for this batch.
AddsBatch(edges) ==
  LET s == AddEdgesLoop([layers |-> vertex_layers, out |-> outgoing_edges,
                         inc |-> incoming_edges, dirty |-> dirty_vertices,
                         new_edges |-> 0], edges, 1)
  IN /\ vertex_layers' = s.layers
     /\ outgoing_edges' = s.out
     /\ incoming_edges' = s.inc
     /\ dirty_vertices' = s.dirty
     /\ total_vertices' = Cardinality(DOMAIN s.layers)
     /\ total_edges' = total_edges + s.new_edges

C31_Step ==
  (nbatches' = nbatches + 1) =>
    /\ \A v \in DOMAIN vertex_layers :
         v \in DOMAIN vertex_layers' /\ vertex_layers'[v] = vertex_layers[v]
    /\ \A v \in (DOMAIN vertex_layers') \ (DOMAIN vertex_layers) :
         vertex_layers'[v] = 0
    /\ max_layer' = max_layer
    /\ \E edges \in ValidBatches : AddsBatch(edges)

\* C31: add_edges_batch does not update layers: a vertex that exists keeps
\* its layer and a new endpoint gets layer 0; the edges with a blank
\* endpoint or with source equal to target change nothing, the call has
\* the effect of the batch without them.
C31_BatchKeepsLayers == [][C31_Step]_vars

\* A second batch after a propagation: a vertex keeps its positive layer
\* and a target of the new batch has predecessors and still layer 0.
C31_Witness ==
  /\ pc = "idle"
  /\ nbatches = 2
  /\ \E v \in DOMAIN vertex_layers : vertex_layers[v] > 0
  /\ \E w \in dirty_vertices :
       /\ vertex_layers[w] = 0
       /\ MapGet(incoming_edges, w, {}) # {}

\* GlobalLayerState::get_statistics (without the distribution itself).
GetStatistics ==
  [total_vertices |-> total_vertices,
   total_edges |-> total_edges,
   max_layer |-> max_layer,
   unique_layers |-> Cardinality({vertex_layers[v] : v \in DOMAIN vertex_layers}),
   update_iterations |-> update_iterations]

\* C32: after propagate_until_convergence on an acyclic edge set the
\* max_layer statistic is the largest layer of the layer map.
C32_MaxLayerStatistic ==
  (Converged /\ Acyclic(StoredEdges) /\ DOMAIN vertex_layers # {}) =>
    GetStatistics.max_layer =
      SetMax({vertex_layers[v] : v \in DOMAIN vertex_layers})

\* A chain of three edges that arrived in two batches, converged: the
\* statistic is 3.
C32_Witness ==
  /\ Converged
  /\ Acyclic(StoredEdges)
  /\ nbatches = MaxBatches
  /\ Cardinality(StoredEdges) = 3
  /\ GetStatistics.max_layer = 3
  /\ GetStatistics.unique_layers = 4

\* The layer maps that assign_layers_bfs returns for the Graph that
\* GraphBuilder makes of the stored edges (added in ascending order), one
\* for each iteration order of the vertices.
BfsLayerMaps ==
  LET es == SortedEdgeSeq(StoredEdges)
  IN {AssignLayersBfs(BuildGraph(es, vorder)) :
        vorder \in Orders(BuilderVertices(es))}

\* C35: for an acyclic edge set, the layers of GlobalLayerState after
\* add_edges_batch and propagate_until_convergence are the layers that
\* assign_layers_bfs gives on the Graph built from the same edges.
C35_EnginesAgree ==
  (Converged /\ Acyclic(StoredEdges)) => BfsLayerMaps = {vertex_layers}

\* Two paths of different length to one vertex, in two batches: both
\* engines give it the layer of the longer one.
C35_Witness ==
  /\ Converged
  /\ Acyclic(StoredEdges)
  /\ nbatches = MaxBatches
  /\ \E e, f \in StoredEdges :
       /\ e[2] = f[2]
       /\ vertex_layers[e[1]] < vertex_layers[f[1]]
       /\ vertex_layers[e[2]] = vertex_layers[f[1]] + 1
  /\ BfsLayerMaps = {vertex_layers}

\* C38: bookkeeping of GlobalLayerState in every reachable state.  t is in
\* outgoing_edges[s] exactly when s is in incoming_edges[t]; both endpoints
\* of every stored edge have an entry in vertex_layers; total_edges is the
\* number of distinct stored edges and total_vertices the number of keys of
\* vertex_layers.
C38_Bookkeeping ==
  /\ \A s, t \in Ids :
       (s \in DOMAIN outgoing_edges /\ t \in outgoing_edges[s])
         <=> (t \in DOMAIN incoming_edges /\ s \in incoming_edges[t])
  /\ \A e \in StoredEdges :
       e[1] \in DOMAIN vertex_layers /\ e[2] \in DOMAIN vertex_layers
  /\ total_edges = Cardinality(StoredEdges)
  /\ total_vertices = Cardinality(DOMAIN vertex_layers)

\* The only stored edge has been added twice: its target got layer 1 from
\* the propagation after the first batch and is dirty again after the
\* second batch, and total_edges is still 1.
C38_Witness ==
  /\ nbatches = 2
  /\ pc = "idle"
  /\ Cardinality(StoredEdges) = 1
  /\ total_edges = 1
  /\ total_vertices = 2
  /\ \E w \in dirty_vertices : vertex_layers[w] = 1

(* -------------------- properties of the batch driver ------------------- *)
\* The edges of the database that a layout keeps, and their vertices.
ValidDbEdges == {e \in Range(db_edges) : ValidEdge(e)}
EndpointsOf(E) == {e[1] : e \in E} \cup {e[2] : e \in E}

\* C7: global consistency in batch mode.  For every total edge count and
\* batch size, after run_batch_layout the layer saved for each vertex is
\* its layer in the layering of the complete edge set: 0 without incoming
\* edges, else 1 + the maximum layer of its predecessors over all loaded
\* edges (the number of edges on the longest path that ends in it).  Stated
\* for the runs in which the database delivered every row and committed
\* every transaction.
C7_GlobalConsistency ==
  (batch_pc = "done" /\ db_faults = 0 /\ Acyclic(ValidDbEdges)) =>
    \A v \in EndpointsOf(ValidDbEdges) :
      /\ v \in DOMAIN saved
      /\ saved[v].layer = LongestPathTo(ValidDbEdges, v)

\* run_batch_layout has returned after laying out two groups of batches of
\* an acyclic edge set, every row was loaded and every transaction of the
\* saves committed, and a vertex of the second group has a saved layer
\* that is not its layer in the complete edge set.
C7_Witness ==
  /\ batch_pc = "done"
  /\ db_faults = 0
  /\ layouts_run >= 2
  /\ Len(db_edges) > batch_size * GroupFactor
  /\ Acyclic(ValidDbEdges)
  /\ \E v \in DOMAIN saved : saved[v].layer # LongestPathTo(ValidDbEdges, v)

(* ------------------- properties of compute_layout ---------------------- *)
\* compute_layout has returned, with a result or with an error.
LayoutReturned == layout_pc \in {"done", "failed"}

\* The edges of the request that validation keeps.
ValidReqEdges == {e \in Range(req_edges) : ValidEdge(e)}

\* The returned positions hold exactly one position for each vertex of V
\* and none for any other vertex.
OnePositionEach(V) ==
  /\ \A v \in V :
       Cardinality({i \in 1..Len(layout_result.positions) :
                      layout_result.positions[i].vertex_id = v}) = 1
  /\ \A i \in 1..Len(layout_result.positions) :
       layout_result.positions[i].vertex_id \in V

\* The returned position of a vertex.
ResultPos(v) == PosOf(layout_result.positions, v)

\* Every edge of E goes to a layer further right.
LayersIncrease(E) ==
  \A e \in E : ResultPos(e[2]).layer >= ResultPos(e[1]).layer + 1

\* C8 as stated: for every non-empty acyclic edge list, compute_layout
\* returns exactly one position per vertex that occurs in an edge, and
\* layer(t) >= layer(s) + 1 for every input edge (s, t).
C8_AsStated ==
  (LayoutReturned /\ Len(req_edges) > 0 /\ Acyclic(Range(req_edges))) =>
    /\ layout_result.status = "ok"
    /\ OnePositionEach(EndpointsOf(Range(req_edges)))
    /\ LayersIncrease(Range(req_edges))

\* C8: for every acyclic edge list with at least one edge whose endpoints
\* are both non-blank, compute_layout returns exactly one position per
\* vertex that occurs in such an edge (none missing, none duplicated, none
\* for another vertex), and layer(t) >= layer(s) + 1 for every such edge
\* (s, t).  Edges with a blank endpoint are dropped.
C8_PositionsAndOrder ==
  (LayoutReturned /\ ValidReqEdges # {} /\ Acyclic(Range(req_edges))) =>
    /\ layout_result.status = "ok"
    /\ OnePositionEach(EndpointsOf(ValidReqEdges))
    /\ LayersIncrease(ValidReqEdges)

\* A result for a path of two edges given together with an edge that has
\* a blank endpoint: three positions, the last vertex in layer 2.
C8_Witness ==
  /\ layout_pc = "done"
  /\ layout_result.status = "ok"
  /\ Acyclic(Range(req_edges))
  /\ Range(req_edges) \ ValidReqEdges # {}
  /\ Cardinality(ValidReqEdges) = 2
  /\ Len(layout_result.positions) = 3
  /\ \E v \in EndpointsOf(ValidReqEdges) : ResultPos(v).layer = 2

\* C9: coordinate formula.  In the positions returned by compute_layout,
\* with optimize_layout on or off and for every block size and gap
\* configuration, every vertex has x = layer * (block_width +
\* horizontal_gap) and y = level * (block_height + vertical_gap).
C9_CoordinateFormula ==
  layout_pc = "done" =>
    \A i \in 1..Len(layout_result.positions) :
      LET p == layout_result.positions[i]
      IN /\ p.x = p.layer * (engine_options.block_width
                              + engine_options.horizontal_gap)
         /\ p.y = p.level * (engine_options.block_height
                              + engine_options.vertical_gap)

\* A result of an engine with optimize_layout on and a vertical pitch above
\* the gap of compact_layout, with two vertices in one layer: the second is
\* at level 1 and at y = CompactGap.
C9_Witness ==
  /\ layout_pc = "done"
  /\ engine_options.optimize_layout
  /\ engine_options.block_height + engine_options.vertical_gap > CompactGap
  /\ \E i \in 1..Len(layout_result.positions) :
       /\ layout_result.positions[i].level = 1
       /\ layout_result.positions[i].y = CompactGap

\* C10: edge path endpoints.  For every edge (s, t) of an acyclic input
\* that validation keeps, compute_layout returns a path that starts at
\* (x(s) + block_width, y(s) + block_height / 2), ends at
\* (x(t), y(t) + block_height / 2) and has exactly
\* layer(t) - layer(s) + 1 points.
C10_EdgePathEndpoints ==
  (layout_pc = "done" /\ Acyclic(ValidReqEdges)) =>
    /\ DOMAIN layout_result.edge_paths = ValidReqEdges
    /\ \A e \in ValidReqEdges :
         LET path == layout_result.edge_paths[e]
             s == ResultPos(e[1])
             t == ResultPos(e[2])
         IN /\ Len(path) = t.layer - s.layer + 1
            /\ path[1] = Point(s.x + engine_options.block_width,
                               s.y + engine_options.block_height \div 2, 1)
            /\ path[Len(path)] =
                 Point(t.x, t.y + engine_options.block_height \div 2, 1)

\* A result with a straight path between neighbouring layers and a
\* polyline of three points over two layers.
C10_Witness ==
  /\ layout_pc = "done"
  /\ \E e \in DOMAIN layout_result.edge_paths :
       Len(layout_result.edge_paths[e]) = 2
  /\ \E e \in DOMAIN layout_result.edge_paths :
       /\ Len(layout_result.edge_paths[e]) = 3
       /\ ResultPos(e[2]).layer = ResultPos(e[1]).layer + 2

(* ------------------ properties of place_all_vertices ------------------- *)
\* The (layer, level, x, y) that a result of place_all_vertices gives to v.
Placement(ps, v) ==
  [layer |-> PosOf(ps, v).layer, level |-> PosOf(ps, v).level,
   x |-> PosOf(ps, v).x, y |-> PosOf(ps, v).y]

\* C11: placement determinism.  place_all_vertices depends only on the
\* contents of the layer map and the configuration: two calls on the same
\* layer map, or on two layer maps with equal contents, return the same
\* (layer, level, x, y) for every vertex.
C11_PlacementDeterminism ==
  place_pc = "twice" =>
    \A v \in DOMAIN place_map :
      Placement(place_first, v) = Placement(place_second, v)

\* Two calls on layer maps with equal contents that hold two vertices in
\* one layer, and that give a vertex two different levels.
C11_Witness ==
  /\ place_pc = "twice"
  /\ place_kind = "equal"
  /\ \E v, w \in DOMAIN place_map : v # w /\ place_map[v] = place_map[w]
  /\ \E v \in DOMAIN place_map :
       Placement(place_first, v).level # Placement(place_second, v).level

\* C12: within each layer, place_all_vertices assigns the levels 0, 1, 2,
\* ... in increasing lexicographic order of vertex id.
C12_LexicographicLevels ==
  place_pc \in {"once", "twice"} =>
    \A v, w \in DOMAIN place_map :
      (place_map[v] = place_map[w] /\ v < w) =>
        Placement(place_first, v).level < Placement(place_first, w).level

\* A result with three vertices in one layer, at the levels 0, 1, 2, and
\* not in the order of their ids.
C12_Witness ==
  /\ place_pc = "once"
  /\ Cardinality(DOMAIN place_map) = 3
  /\ \A v, w \in DOMAIN place_map : place_map[v] = place_map[w]
  /\ {Placement(place_first, v).level : v \in DOMAIN place_map} = 0..2
  /\ \E v, w \in DOMAIN place_map :
       v < w /\ Placement(place_first, v).level
                  > Placement(place_first, w).level

\* The indices of the positions of a result that lie in the given layer.
InLayer(ps, layer) == {i \in 1..Len(ps) : ps[i].layer = layer}

\* C37: no overlap in the grid.  place_all_vertices returns one position per
\* vertex of the layer map, with the layer taken from the map; within each
\* layer the levels are exactly 0..n-1, so no two vertices share a
\* (layer, level) cell.
C37_NoOverlap ==
  place_pc \in {"once", "twice"} =>
    /\ Len(place_first) = Cardinality(DOMAIN place_map)
    /\ {place_first[i].vertex_id : i \in 1..Len(place_first)}
         = DOMAIN place_map
    /\ \A i \in 1..Len(place_first) :
         place_first[i].layer = place_map[place_first[i].vertex_id]
    /\ \A i \in 1..Len(place_first) :
         {place_first[j].level : j \in InLayer(place_first, place_first[i].layer)}
           = 0..(Cardinality(InLayer(place_first, place_first[i].layer)) - 1)
    /\ \A i, j \in 1..Len(place_first) :
         (/\ place_first[i].layer = place_first[j].layer
          /\ place_first[i].level = place_first[j].level) => i = j

\* A result for three vertices, two of them in one layer and the third in a
\* layer that is not the next one.
C37_Witness ==
  /\ place_pc = "once"
  /\ Len(place_first) = 3
  /\ Cardinality(InLayer(place_first, 0)) = 2
  /\ Cardinality(InLayer(place_first, 2)) = 1
  /\ {place_first[j].level : j \in InLayer(place_first, 0)} = {0, 1}

(* --------------- more properties of compute_layout --------------------- *)
\* C13: empty input rejection.  compute_layout returns an error, never a
\* result, when the edge list is empty or when no edge remains after
\* dropping the edges with a blank endpoint and the self-loops: the request
\* ends in validate_edges, with the error of the case and no positions.
C13_EmptyInputRejected ==
  ValidReqEdges = {} =>
    /\ layout_pc \in {"start", "failed"}
    /\ layout_pc = "failed" =>
         /\ layout_result.status =
              (IF Len(req_edges) = 0 THEN "EmptyGraph" ELSE "NoValidEdges")
         /\ layout_result.positions = <<>>

\* A request that holds a self-loop and an edge with a blank endpoint and
\* nothing else has been rejected.
C13_Witness ==
  /\ layout_pc = "failed"
  /\ layout_result.status = "NoValidEdges"
  /\ \E i \in 1..Len(req_edges) : req_edges[i][1] = req_edges[i][2]
  /\ \E i \in 1..Len(req_edges) :
       IsEmpty(Trim(req_edges[i][1])) \/ IsEmpty(Trim(req_edges[i][2]))

\* compute_layout has built its graph.
GraphBuilt ==
  \/ layout_pc \in {"built", "sorted", "pathed", "layered", "placed",
                    "optimized", "routed", "done"}
  \/ layout_pc = "failed" /\ layout_result.status = "Cycle"

\* C24: deduplication at ingestion.  For any input edge list the Graph that
\* compute_layout builds holds exactly the distinct ordered pairs (s, t)
\* with non-blank s and t and s # t: no self-loop, no pair twice in a list,
\* and edge_count is the number of such pairs.
C24_DedupAtIngestion ==
  GraphBuilt =>
    LET V == Range(graph.vertex_ids)
    IN /\ GraphEdges(graph) = ValidReqEdges
       /\ V = EndpointsOf(ValidReqEdges)
       /\ Len(graph.vertex_ids) = Cardinality(V)
       /\ \A s \in V, u \in V :
            /\ CountIn(graph.adjacency_out[s], u)
                 = (IF <<s, u>> \in ValidReqEdges THEN 1 ELSE 0)
            /\ CountIn(graph.adjacency_in[u], s)
                 = (IF <<s, u>> \in ValidReqEdges THEN 1 ELSE 0)
       /\ graph.edge_count = Cardinality(ValidReqEdges)

\* The graph of a request that names the edge 1 -> 2 twice, next to a
\* self-loop.
C24_Witness ==
  /\ layout_pc = "built"
  /\ req_edges = <<<<1, 2>>, <<3, 3>>, <<1, 2>>>>
  /\ graph.edge_count = 1
  /\ graph.adjacency_out[1] = <<2>>

\* The largest layer of the returned positions.
ResultMaxLayer ==
  SetMax({layout_result.positions[i].layer :
            i \in 1..Len(layout_result.positions)})

\* C25: for every acyclic input the longest_path_length of the statistics
\* does not exceed the number of layers of the layout, max layer + 1.
C25_PathWithinLayers ==
  (layout_pc = "done" /\ Acyclic(ValidReqEdges)) =>
    /\ layout_result.positions # <<>>
    /\ layout_result.longest_path_length = Len(longest_path)
    /\ layout_result.longest_path_length <= ResultMaxLayer + 1

\* The chain 1 -> 2 -> 3 with the shortcut 1 -> 3: a longest path of three
\* vertices in a layout of three layers.
C25_Witness ==
  /\ layout_pc = "done"
  /\ ValidReqEdges = {<<1, 2>>, <<2, 3>>, <<1, 3>>}
  /\ layout_result.longest_path_length = 3
  /\ ResultMaxLayer = 2

\* C26: when the valid edges of the input contain a directed cycle,
\* compute_layout returns the error of the topological-sort stage, and the
\* longest-path and vertex-placement stages are never started for that
\* request.
C26_CycleStopsPipeline ==
  ~Acyclic(ValidReqEdges) =>
    /\ layout_pc \in {"start", "validated", "built", "failed"}
    /\ longest_path = <<>>
    /\ layer_map = EmptyMap
    /\ positions = <<>>
    /\ edge_paths = EmptyMap
    /\ layout_pc = "failed" =>
         /\ layout_result.status = "Cycle"
         /\ layout_result.positions = <<>>
         /\ graph # NoGraph
         /\ topo_order = <<>>

\* The request 1 -> 2, 2 -> 3, 3 -> 1 has failed in the topological sort.
C26_Witness ==
  /\ layout_pc = "failed"
  /\ req_edges = <<<<1, 2>>, <<2, 3>>, <<3, 1>>>>
  /\ layout_result.status = "Cycle"
  /\ graph.edge_count = 3
  /\ longest_path = <<>>
  /\ positions = <<>>

(* ------------------- properties of ParallelTopoSort -------------------- *)
\* The order holds every vertex of the graph exactly once, and the source
\* of every edge before its target.
TopologicalOrder(g, order) ==
  /\ Len(order) = Len(g.vertex_ids)
  /\ \A v \in Range(g.vertex_ids) : CountIn(order, v) = 1
  /\ \A e \in GraphEdges(g) : LastIn(order, e[1]) < LastIn(order, e[2])

\* C14: for every DAG and every worker count and batch size >= 1,
\* compute_parallel returns an order that contains every vertex exactly
\* once and places the source of every edge before its target, and
\* validate_result accepts it.
C14_TopologicalOrder ==
  (ts_pc \in {"sorted", "validated"} /\ Acyclic(GraphEdges(lib_graph))) =>
    /\ ts_outcome = "ok"
    /\ TopologicalOrder(lib_graph, ts_order)
    /\ ts_pc = "validated" => ts_valid = "ok"

\* An accepted order of four vertices, found with chunks of one vertex: two
\* vertices of one level, each in its own chunk, decrement the same target.
C14_Witness ==
  /\ ts_pc = "validated"
  /\ ts_valid = "ok"
  /\ ts_batch_size = 1
  /\ Len(ts_order) = NumGraphVertices
  /\ ts_level_count = 2
  /\ \E t \in Range(lib_graph.vertex_ids) :
       Cardinality(Range(lib_graph.adjacency_in[t])) = 2

\* C15: for every graph that contains a directed cycle, compute_parallel
\* terminates and returns an error (fewer vertices ordered than the vertex
\* count) instead of an order.
C15_CycleError ==
  (ts_pc = "kahn" /\ ~Acyclic(GraphEdges(lib_graph)))
    ~> (ts_pc = "sorted" /\ ts_outcome = "err" /\ ts_order = <<>>
        /\ Len(ts_result) < Len(lib_graph.vertex_ids))

\* The error for a graph with a cycle that is entered from a source: the
\* source was ordered in the one level that ran, the cycle was not.
C15_Witness ==
  /\ ts_pc = "sorted"
  /\ ts_outcome = "err"
  /\ ~Acyclic(GraphEdges(lib_graph))
  /\ ts_level_count = 1
  /\ Len(ts_result) = 1
  /\ Len(lib_graph.vertex_ids) = 3

(* --------------------- properties of has_cycle ------------------------- *)
\* C16: has_cycle returns true exactly when the graph contains a directed
\* cycle, and is_dag is its negation.
C16_HasCycleExact ==
  /\ hc_has_cycle # "none" =>
       (hc_has_cycle = "yes" <=> ~Acyclic(GraphEdges(lib_graph)))
  /\ hc_is_dag # "none" =>
       (hc_is_dag = "yes" <=> Acyclic(GraphEdges(lib_graph)))

\* A -> B -> C -> A: has_cycle has returned true and is_dag false.
C16_Witness ==
  /\ GraphEdges(lib_graph) = {<<1, 2>>, <<2, 3>>, <<3, 1>>}
  /\ hc_has_cycle = "yes"
  /\ hc_is_dag = "no"

(* ------------------- properties of SIMDLongestPath --------------------- *)
\* Number of vertices of the longest directed path of a graph with edges.
MaxPathVertices(E) ==
  1 + SetMax({LongestPathTo(E, v) : v \in EndpointsOf(E)})

\* C17: given a DAG and a topological order of all its vertices, find_simd
\* returns a longest path: it starts at a vertex without incoming edges,
\* its consecutive vertices are joined by edges of the graph (validate_path
\* accepts it), and its number of vertices is the maximum over all directed
\* paths of the graph.
C17_LongestPath ==
  (/\ lp_pc \in {"found", "validated"}
   /\ Acyclic(GraphEdges(lib_graph))
   /\ TopologicalOrder(lib_graph, lp_topo_order)) =>
    /\ lp_path # <<>>
    /\ Preds(GraphEdges(lib_graph), lp_path[1]) = {}
    /\ \A i \in 1..(Len(lp_path) - 1) :
         <<lp_path[i], lp_path[i + 1]>> \in GraphEdges(lib_graph)
    /\ Len(lp_path) = MaxPathVertices(GraphEdges(lib_graph))
    /\ lp_pc = "validated" => lp_valid = "ok"

\* The f32 variant on LongChain with the side vertex last in the order:
\* the distances of the last two vertices of the chain and of the side
\* vertex are all DistExact, the path returned ends at the side vertex and
\* is one vertex shorter than the chain; validate_path accepts it.
C17_Witness ==
  /\ lp_pc = "validated"
  /\ lp_valid = "ok"
  /\ lp_simd_enabled
  /\ lib_graph = LongChain
  /\ TopologicalOrder(lib_graph, lp_topo_order)
  /\ lp_topo_order = SortedSeq(1..(DistExact + 3))
  /\ lp_path = SortedSeq(1..DistExact) \o <<DistExact + 3>>
  /\ Len(lp_path) = DistExact + 1
  /\ MaxPathVertices(GraphEdges(lib_graph)) = DistExact + 2

\* C36: for every DAG and every topological order of its vertices,
\* find_simd returns the same path with simd_enabled = true as with
\* simd_enabled = false, also when several paths are equally long.
C36_SimdAgrees ==
  (/\ lp_pc \in {"found", "validated"}
   /\ Acyclic(GraphEdges(lib_graph))
   /\ TopologicalOrder(lib_graph, lp_topo_order)) =>
    lp_path = FindSimd(lib_graph, lp_topo_order, ~lp_simd_enabled)

\* The i32 variant on LongChain with the side vertex last in the order
\* returns the whole chain; the f32 variant returns, on the same graph and
\* order, the path that ends at the side vertex.
C36_Witness ==
  /\ lp_pc = "found"
  /\ ~lp_simd_enabled
  /\ lib_graph = LongChain
  /\ TopologicalOrder(lib_graph, lp_topo_order)
  /\ lp_topo_order = SortedSeq(1..(DistExact + 3))
  /\ lp_path = SortedSeq(1..(DistExact + 2))
  /\ FindSimd(lib_graph, lp_topo_order, TRUE)
       = SortedSeq(1..DistExact) \o <<DistExact + 3>>

(* --------------- properties of GraphLayoutServer ----------------------- *)
\* The request cannot be laid out: its edges cannot be loaded, or the
\* engine rejects them.
RequestFails ==
  \/ srv_request = <<>>
  \/ \E vorder \in LayoutVertexOrders(srv_request) :
       LayoutFails(srv_request, vorder)

\* C18: when the layout computation of a request fails, compute_layout
\* answers with success = false, a non-empty error_message and no
\* positions; success = true comes only with the positions of a completed
\* layout.
C18_FailureResponse ==
  srv_pc = "responded" =>
    /\ (RequestFails \/ layout_pc = "failed") =>
         /\ srv_response.success = FALSE
         /\ srv_response.error_message # ""
         /\ srv_response.positions = <<>>
    /\ srv_response.success =>
         /\ ~RequestFails
         /\ layout_pc = "done"
         /\ layout_result.status = "ok"
         /\ srv_response.positions = ResponsePositionsOf(positions)
         /\ OnePositionEach(EndpointsOf(ValidReqEdges))

\* A request with a cycle answered with success = false and the error of
\* the topological sort.
C18_Witness ==
  /\ srv_pc = "responded"
  /\ layout_pc = "failed"
  /\ srv_request = <<<<1, 2>>, <<2, 1>>>>
  /\ srv_response.success = FALSE
  /\ srv_response.error_message = "Cycle"
  /\ srv_response.positions = <<>>

(* ------------- properties of load_graph_edges_batch -------------------- *)
\* C19: bounded retries.  load_graph_edges_batch makes at most MaxRetries
\* attempts, and after the third failure, query error or row timeout, it
\* has returned an error.
C19_BoundedRetries ==
  /\ ld_executes <= MaxRetries
  /\ ld_attempt <= MaxRetries
  /\ (ld_query_errors + ld_timeouts >= MaxRetries) => ld_pc = "err"

\* Three row timeouts in the first attempt, and the function is still
\* reading the same stream.
C19_Witness ==
  /\ ld_pc = "rows"
  /\ ld_attempt = 1
  /\ ld_executes = 1
  /\ ld_timeouts >= MaxRetries

\* C20: no silent partial result.  load_graph_edges_batch returns Ok only
\* when it has read the requested page to its end, never after a row-read
\* error with the rows read so far.
C20_NoPartialResult ==
  ld_pc = "ok" => (ld_edges = ld_page /\ ~ld_row_error)

\* Ok returned with one row of a page of two, after a row-read error.
C20_Witness ==
  /\ ld_pc = "ok"
  /\ ld_row_error
  /\ Len(ld_page) = 2
  /\ Len(ld_edges) = 1

(* -------- properties of save_layout_results_with_batch_size ----------- *)
\* The tasks that hold a permit, and those with a transaction begun.
LiveTasks == {b \in 1..Len(sv_tasks) : sv_tasks[b].state \in {"run", "txn"}}
OpenTxns == {b \in 1..Len(sv_tasks) : sv_tasks[b].state = "txn"}

\* C21: bounded parallelism of saves.  For any number of batches at most
\* MaxParallel batch transactions are in progress at the same time; the
\* tasks that have not returned and the free permits add up to MaxParallel.
C21_BoundedParallelism ==
  sv_pc \in {"spawning", "joining", "ok", "err"} /\ sv_total_batches > 0 =>
    /\ Cardinality(OpenTxns) <= MaxParallel
    /\ Cardinality(LiveTasks) + sv_permits = MaxParallel

\* Three batches: two transactions are open and the third batch waits for
\* a permit.
C21_Witness ==
  /\ sv_pc = "spawning"
  /\ sv_total_batches = 3
  /\ sv_spawned = 2
  /\ sv_permits = 0
  /\ Cardinality(OpenTxns) = 2

\* C30: the transaction of one batch is tried at most MaxAttempts times,
\* and a batch whose every try fails has reported its error after the
\* fifth try.
C30_AtMostMaxAttempts ==
  \A b \in 1..Len(sv_tasks) :
    /\ sv_tasks[b].tries <= MaxAttempts
    /\ (sv_tasks[b].tries = MaxAttempts /\ sv_tasks[b].state = "run") =>
         sv_tasks[b].attempt < MaxAttempts

\* A batch that reports its error after six tries.
C30_Witness ==
  \E b \in 1..Len(sv_tasks) :
    /\ sv_tasks[b].state = "err"
    /\ sv_tasks[b].tries = MaxAttempts + 1
    /\ sv_tasks[b].attempt = MaxAttempts

\* The positions (numbered from 1) of the slice of batch b:
\* positions[start_idx..end_idx].
SliceOf(b) ==
  ((b - 1) * sv_batch_size + 1)
    .. (IF b * sv_batch_size < sv_total_positions THEN b * sv_batch_size
        ELSE sv_total_positions)

\* The positions written by a committed batch transaction.
Written ==
  UNION {SliceOf(b) : b \in {c \in 1..Len(sv_tasks) : sv_tasks[c].state = "ok"}}

\* A batch has exhausted its retries.
BatchFailed == \E b \in 1..Len(sv_tasks) : sv_tasks[b].state = "err"

\* C39: save_layout_results_with_batch_size returns Ok only when every
\* position has been written by a committed batch transaction; if any
\* batch exhausts its retries, the call does not return Ok and returns an
\* error.
C39_AsStated ==
  /\ [](sv_pc = "ok" => Written = 1..sv_total_positions)
  /\ [](BatchFailed => sv_pc # "ok")
  /\ (BatchFailed ~> sv_pc = "err")

\* Two positions and the largest batch size in a build without overflow
\* checks: total_positions + batch_size - 1 has wrapped to 0, no batch was
\* spawned, and the call has returned Ok with no position written.
C39_Witness ==
  /\ sv_pc = "ok"
  /\ ~overflow_checks
  /\ sv_total_positions = 2
  /\ sv_batch_size = UsizeMax
  /\ TotalBatchesOverflows(sv_total_positions, sv_batch_size)
  /\ sv_total_batches = 0
  /\ sv_tasks = <<>>
  /\ Written = {}

(* --------------------- properties of GraphBuilder ---------------------- *)
\* What C22 says of one step: of an add_edge call, and of the graph when
\* the step is build.
C22_Step ==
  /\ gb_last' # gb_last =>
       IF gb_last'.source = gb_last'.target
       THEN /\ gb_last'.result = "err"
            /\ gb_vertices' = gb_vertices
            /\ gb_edges' = gb_edges
       ELSE /\ gb_last'.result = "ok"
            /\ gb_edges' = Append(gb_edges, <<gb_last'.source, gb_last'.target>>)
            /\ gb_vertices' = gb_vertices \cup {gb_last'.source, gb_last'.target}
  /\ gb_pc' = "built" =>
       \A i \in 1..Len(gb_edges') :
         /\ gb_edges'[i][1] # gb_edges'[i][2]
         /\ gb_edges'[i][2]
              \in Range(lib_graph'.adjacency_out[gb_edges'[i][1]])
         /\ gb_edges'[i][1]
              \in Range(lib_graph'.adjacency_in[gb_edges'[i][2]])

\* C22: add_edge with source equal to target returns an error and leaves
\* the builder unchanged (no vertex and no edge is added); with distinct
\* endpoints it succeeds, and after build the edge is in the outgoing list
\* of the source and in the incoming list of the target.
C22_AddEdgeContract == [][C22_Step]_vars

\* A built graph after a rejected self-loop and an accepted edge.
C22_Witness ==
  /\ gb_pc = "built"
  /\ gb_last.result = "err"
  /\ gb_last.source = 2
  /\ gb_edges = <<<<1, 2>>>>
  /\ gb_vertices = {1, 2}
  /\ lib_graph.adjacency_out[1] = <<2>>
  /\ lib_graph.adjacency_in[2] = <<1>>

RECURSIVE SumLen(_, _)
SumLen(adj, S) ==
  IF S = {} THEN 0
  ELSE LET v == CHOOSE x \in S : TRUE IN Len(adj[v]) + SumLen(adj, S \ {v})

\* C23: in every Graph that build produces the two adjacency projections
\* mirror each other, with multiplicity, and edge_count is the sum of the
\* out-degrees and the sum of the in-degrees.
C23_AdjacencyMirror ==
  gb_pc = "built" =>
    LET V == Range(lib_graph.vertex_ids)
    IN /\ V = gb_vertices
       /\ \A s \in V, u \in V :
            CountIn(lib_graph.adjacency_out[s], u)
              = CountIn(lib_graph.adjacency_in[u], s)
       /\ lib_graph.edge_count = SumLen(lib_graph.adjacency_out, V)
       /\ lib_graph.edge_count = SumLen(lib_graph.adjacency_in, V)

\* A built graph with the edge 1 -> 2 twice, the edge 3 -> 2 once.
C23_Witness ==
  /\ gb_pc = "built"
  /\ lib_graph.edge_count = 3
  /\ lib_graph.adjacency_out[1] = <<2, 2>>
  /\ CountIn(lib_graph.adjacency_in[2], 1) = 2
  /\ CountIn(lib_graph.adjacency_in[2], 3) = 1

(* ----------------------- assign_layers_bfs steps ----------------------- *)
bfsOthers ==
  <<glsVars, layoutVars, batchVars, placeVars, lib_graph, topoVars, cycleVars,
    pathVars, builderVars, frontierVars, serviceVars>>

\* The source scan; without a source the empty map is returned at once,
\* before validate_layer_assignments.
BfsCall ==
  /\ bfs_pc = "ready"
  /\ LET sources == SelectSeq(lib_graph.vertex_ids,
                              LAMBDA v : IsSource(lib_graph, v))
     IN IF sources = <<>>
        THEN /\ bfs_pc' = "returned"
             /\ UNCHANGED <<bfs_layer_map, bfs_queue>>
        ELSE /\ bfs_pc' = "loop"
             /\ bfs_layer_map' = [v \in Range(sources) |-> 0]
             /\ bfs_queue' = [i \in 1..Len(sources) |-> <<sources[i], 0>>]
  /\ UNCHANGED <<bfs_processed, bfs_errors, bfsOthers>>

\* An addition of the next iteration leaves the range of i32: processed += 1
\* at the top of the loop, or current_layer + 1 for a dequeued vertex that
\* has outgoing edges.
BfsOverflows ==
  \/ bfs_processed = I32Max
  \/ /\ lib_graph.adjacency_out[Head(bfs_queue)[1]] # <<>>
     /\ Head(bfs_queue)[2] = I32Max

\* One iteration of the while loop: pop_front, processed += 1 and the for
\* loop over the outgoing edges; both additions wrap in a build without
\* overflow checks.
BfsDequeue ==
  /\ bfs_pc = "loop"
  /\ bfs_queue # <<>>
  /\ ~(overflow_checks /\ BfsOverflows)
  /\ bfs_processed' = WrapInc(bfs_processed)
  /\ LET st == BfsTargets([lm |-> bfs_layer_map, q |-> Tail(bfs_queue)],
                          lib_graph.adjacency_out[Head(bfs_queue)[1]],
                          WrapInc(Head(bfs_queue)[2]), 1)
     IN /\ bfs_layer_map' = st.lm
        /\ bfs_queue' = st.q
  /\ UNCHANGED <<bfs_pc, bfs_errors, bfsOthers>>

\* In a build with overflow checks the iteration panics at the first
\* addition that overflows: processed += 1, which counts every dequeue and
\* so is never behind current_layer.
BfsPanic ==
  /\ bfs_pc = "loop"
  /\ bfs_queue # <<>>
  /\ overflow_checks
  /\ BfsOverflows
  /\ bfs_pc' = "panic"
  /\ UNCHANGED <<bfs_layer_map, bfs_queue, bfs_processed, bfs_errors,
                 bfsOthers>>

\* The queue is empty: validate_layer_assignments and Ok(layer_map).
BfsReturn ==
  /\ bfs_pc = "loop"
  /\ bfs_queue = <<>>
  /\ bfs_errors' = ValidateLayerAssignments(bfs_layer_map, lib_graph)
  /\ bfs_pc' = "returned"
  /\ UNCHANGED <<bfs_layer_map, bfs_queue, bfs_processed, bfsOthers>>

BfsNext == BfsCall \/ BfsDequeue \/ BfsPanic \/ BfsReturn

SpecBfs == BfsInit /\ [][BfsNext]_vars

\* The task that runs assign_layers_bfs keeps running.
SpecBfsFair == SpecBfs /\ WF_vars(BfsNext)

(* ------------------- the workers of one Kahn level --------------------- *)
frontierOthers ==
  <<glsVars, layoutVars, batchVars, placeVars, lib_graph, topoVars, cycleVars,
    pathVars, builderVars, bfsVars, serviceVars>>

\* Mutant: a target is pushed when one more decrement is still due.
ReachedZero_OneLeft(new_degree) == new_degree <= 1

\* if new_degree == 0
ReachedZero(new_degree) == new_degree = 0

\* fetch_sub(1, Relaxed) - 1 on a usize: the value after the decrement.
FetchSubNew(previous) == (previous + UsizeMax) % Pow2(UsizeBits)

\* compute_in_degrees_simd and the first loop of kahn_parallel: the queue
\* holds the vertices of in-degree 0 in the iteration order of the HashMap.
\* fr_next is the queue between two levels.
KahnStart ==
  /\ fr_pc = "ready"
  /\ fr_in_degrees' = InDegrees(lib_graph)
  /\ \E q \in Orders({v \in Range(lib_graph.vertex_ids) :
                        InDegrees(lib_graph)[v] = 0}) :
       /\ fr_next' = q
       /\ fr_pc' = IF q = <<>> THEN "done" ELSE "queue"
  /\ UNCHANGED <<fr_batch_size, fr_level, fr_todo, fr_local, fr_merged,
                 fr_result, frontierOthers>>

\* One pass of the while loop up to the parallel section of
\* process_level_parallel: the queue is drained into current_level, which
\* par_chunks splits; each chunk starts with an empty local_next.
LevelStart ==
  /\ fr_pc = "queue"
  /\ fr_level' = fr_next
  /\ fr_next' = <<>>
  /\ LET chunks == Chunks(fr_next, fr_batch_size)
     IN /\ fr_todo' = [c \in DOMAIN chunks |->
                         ChunkTargets(lib_graph, chunks[c], 1)]
        /\ fr_local' = [c \in DOMAIN chunks |-> <<>>]
        /\ fr_merged' = [c \in DOMAIN chunks |-> FALSE]
  /\ fr_pc' = "level"
  /\ UNCHANGED <<fr_batch_size, fr_in_degrees, fr_result, frontierOthers>>

\* The worker of chunk c executes one fetch_sub and the test that follows.
WorkerFetchSub(c) ==
  /\ fr_pc = "level"
  /\ fr_todo[c] # <<>>
  /\ LET target_id == Head(fr_todo[c])
         new_degree == FetchSubNew(fr_in_degrees[target_id])
     IN /\ fr_in_degrees' = [fr_in_degrees EXCEPT ![target_id] = new_degree]
        /\ fr_local' = [fr_local EXCEPT
                          ![c] = IF ReachedZero(new_degree)
                                 THEN Append(@, target_id) ELSE @]
  /\ fr_todo' = [fr_todo EXCEPT ![c] = Tail(@)]
  /\ UNCHANGED <<fr_pc, fr_batch_size, fr_level, fr_merged, fr_next,
                 fr_result, frontierOthers>>

\* The worker of chunk c has left its loops: under the mutex it moves a
\* non-empty local_next to the end of global_next, and returns.
WorkerMerge(c) ==
  /\ fr_pc = "level"
  /\ fr_todo[c] = <<>>
  /\ ~fr_merged[c]
  /\ fr_next' = fr_next \o fr_local[c]
  /\ fr_local' = [fr_local EXCEPT ![c] = <<>>]
  /\ fr_merged' = [fr_merged EXCEPT ![c] = TRUE]
  /\ UNCHANGED <<fr_pc, fr_batch_size, fr_in_degrees, fr_level, fr_todo,
                 fr_result, frontierOthers>>

\* for_each has returned: process_level_parallel returns global_next,
\* current_level goes to the result and the next vertices to the queue.
LevelJoin ==
  /\ fr_pc = "level"
  /\ \A c \in DOMAIN fr_merged : fr_merged[c]
  /\ fr_result' = fr_result \o fr_level
  /\ fr_level' = <<>>
  /\ fr_todo' = <<>>
  /\ fr_local' = <<>>
  /\ fr_merged' = <<>>
  /\ fr_pc' = IF fr_next = <<>> THEN "done" ELSE "queue"
  /\ UNCHANGED <<fr_batch_size, fr_in_degrees, fr_next, frontierOthers>>

FrontierNext ==
  \/ KahnStart
  \/ LevelStart
  \/ \E c \in DOMAIN fr_todo : WorkerFetchSub(c)
  \/ \E c \in DOMAIN fr_todo : WorkerMerge(c)
  \/ LevelJoin

SpecFrontier == FrontierInit /\ [][FrontierNext]_vars

(* ----------------- properties of the Kahn level workers ---------------- *)
\* How often v stands in global_next and in the local_next vectors.
TimesAdded(v) ==
  CountIn(fr_next, v)
  + Cardinality({p \in (DOMAIN fr_local) \X (1..MaxGraphEdges + 1) :
                   /\ p[2] <= Len(fr_local[p[1]])
                   /\ fr_local[p[1]][p[2]] = v})

\* The vertices of the current level and of the levels before it.
Taken == Range(fr_level) \cup Range(fr_result)

\* C29: whatever the interleaving of the workers of a level, a vertex is
\* in the next frontier exactly once as soon as its in-degree has reached
\* zero, never while its in-degree is positive, and never again once it
\* has been part of a level.
C29_FrontierExactlyOnce ==
  \A v \in DOMAIN fr_in_degrees :
     /\ TimesAdded(v) <= 1
     /\ TimesAdded(v) = 1 => fr_in_degrees[v] = 0
     /\ (fr_in_degrees[v] = 0 /\ v \notin Taken) => TimesAdded(v) = 1
     /\ v \in Taken => TimesAdded(v) = 0

\* Two workers have decremented the in-degree of the same vertex; the one
\* that brought it to zero holds it in its local_next while the other one
\* has already merged.
C29_Witness ==
  /\ fr_pc = "level"
  /\ \E v \in DOMAIN fr_in_degrees : \E c, d \in DOMAIN fr_local :
       /\ c # d
       /\ fr_merged[d]
       /\ ~fr_merged[c]
       /\ CountIn(fr_local[c], v) = 1
       /\ CountIn(ChunkTargets(lib_graph,
                               Chunks(fr_level, fr_batch_size)[d], 1), v) > 0
       /\ fr_in_degrees[v] = 0

(* --------------------- properties of assign_layers_bfs ----------------- *)
\* C27: every call of assign_layers_bfs returns (a layer map, with the
\* edges whose source layer is not below the target layer counted as
\* validation errors), on graphs with a cycle too.
C27_BfsReturns == (bfs_pc = "ready") ~> (bfs_pc = "returned")

\* A graph with a cycle that a source reaches: the vertices of the cycle
\* were pushed again and again until processed was the largest i32, and
\* processed += 1 has panicked.
C27_Witness ==
  /\ bfs_pc = "panic"
  /\ overflow_checks
  /\ HasCycle(lib_graph)
  /\ bfs_processed = I32Max
  /\ bfs_queue # <<>>

(* ---------------------- optimize_placement calls ---------------------- *)
optOthers ==
  <<glsVars, layoutVars, batchVars, placeVars, graphVars, serverVars,
    loadVars, saveVars, routeVars, memVars>>

\* optimize_placement on the positions.
OptimizeFirst ==
  /\ opt_pc = "ready"
  /\ opt_first' = OptimizePlacement(opt_input, opt_config)
  /\ opt_passes' = OptimizePasses(opt_input, opt_config, 0)
  /\ opt_pc' = "once"
  /\ UNCHANGED <<opt_config, opt_input, opt_second, optOthers>>

\* optimize_placement on the positions that the first call has left.
OptimizeAgain ==
  /\ opt_pc = "once"
  /\ opt_second' = OptimizePlacement(opt_first, opt_config)
  /\ opt_passes' = OptimizePasses(opt_first, opt_config, 0)
  /\ opt_pc' = "twice"
  /\ UNCHANGED <<opt_config, opt_input, opt_first, optOthers>>

OptNext == OptimizeFirst \/ OptimizeAgain

SpecOptimize == OptInit /\ [][OptNext]_vars

(* -------------------- properties of optimize_placement ----------------- *)
\* C33: optimize_placement applied to its own output changes no position,
\* and every call makes at most max_iterations passes.
C33_OptimizeIdempotent ==
  /\ opt_pc = "twice" => opt_second = opt_first
  /\ opt_passes <= opt_config.max_iterations

\* A layer with gaps above 130 was compacted by the first call, in its one
\* permitted pass, and the second call has run on the result.
C33_Witness ==
  /\ opt_pc = "twice"
  /\ opt_config.compact_layout
  /\ opt_config.max_iterations = 1
  /\ opt_first # opt_input
  /\ opt_passes = 1

(* ------------------- compute_single_edge_path calls -------------------- *)
routeOthers ==
  <<glsVars, layoutVars, batchVars, placeVars, graphVars, serverVars,
    loadVars, saveVars, optVars, memVars>>

RouteCall ==
  /\ rt_pc = "ready"
  /\ rt_path' = ComputeSingleEdgePath(rt_source, rt_target, rt_config,
                                      rt_options)
  /\ rt_pc' = "done"
  /\ UNCHANGED <<rt_source, rt_target, rt_config, rt_options, routeOthers>>

RouteNext == RouteCall

SpecRoute == RouteInit /\ [][RouteNext]_vars

(* ---------------------------- MemoryManager ---------------------------- *)
MemInit ==
  /\ EngineOff /\ PlaceOff /\ GraphOff /\ ServerOff /\ LoadOff /\ SaveOff
  /\ OptOff /\ RouteOff
  /\ MemStart

memOthers ==
  <<glsVars, layoutVars, batchVars, placeVars, graphVars, serverVars,
    loadVars, saveVars, optVars, routeVars>>

\* can_allocate on the value loaded from current_usage, when current + size
\* fits in usize.
CanAllocate(current, size) == current + size <= MemoryLimit

\* can_allocate when current + size does not fit in usize, in a build
\* without overflow checks: the sum wraps.
CanAllocateWrapped(current, size) == UsizeAdd(current, size) <= MemoryLimit

\* A thread calls allocate(size): can_allocate loads current_usage and
\* compares.  The call returns Err, or goes on to its fetch_add; when the
\* sum overflows, a build with overflow checks panics.
MemAllocateCheck(t) ==
  /\ mem_on
  /\ mem_pc[t] = "idle"
  /\ mem_calls < MaxMemCalls
  /\ \E size \in 0..MaxMemSize :
       \/ /\ current_usage + size <= UsizeMax
          /\ IF CanAllocate(current_usage, size)
             THEN /\ mem_pc' = [mem_pc EXCEPT ![t] = "add"]
                  /\ mem_size' = [mem_size EXCEPT ![t] = size]
                  /\ mem_result' = [mem_result EXCEPT ![t] = "none"]
             ELSE /\ mem_result' = [mem_result EXCEPT ![t] = "err"]
                  /\ UNCHANGED <<mem_pc, mem_size>>
       \/ /\ current_usage + size > UsizeMax
          /\ mem_pc' = [mem_pc EXCEPT ![t] = "panic"]
          /\ mem_result' = [mem_result EXCEPT ![t] = "none"]
          /\ UNCHANGED mem_size
       \/ /\ current_usage + size > UsizeMax
          /\ IF CanAllocateWrapped(current_usage, size)
             THEN /\ mem_pc' = [mem_pc EXCEPT ![t] = "add"]
                  /\ mem_size' = [mem_size EXCEPT ![t] = size]
                  /\ mem_result' = [mem_result EXCEPT ![t] = "none"]
             ELSE /\ mem_result' = [mem_result EXCEPT ![t] = "err"]
                  /\ UNCHANGED <<mem_pc, mem_size>>
  /\ mem_calls' = mem_calls + 1
  /\ UNCHANGED <<mem_on, current_usage>>
  /\ UNCHANGED memOthers

\* The fetch_add of allocate (it wraps), and the return of Ok.
MemAllocateAdd(t) ==
  /\ mem_pc[t] = "add"
  /\ current_usage' = UsizeAdd(current_usage, mem_size[t])
  /\ mem_pc' = [mem_pc EXCEPT ![t] = "idle"]
  /\ mem_result' = [mem_result EXCEPT ![t] = "ok"]
  /\ UNCHANGED <<mem_on, mem_size, mem_calls>>
  /\ UNCHANGED memOthers

\* A thread calls deallocate(size): the argument of fetch_sub,
\* size.min(self.get_memory_usage()), is evaluated.
MemDeallocateLoad(t) ==
  /\ mem_on
  /\ mem_pc[t] = "idle"
  /\ mem_calls < MaxMemCalls
  /\ \E size \in 0..MaxMemSize :
       mem_size' = [mem_size EXCEPT ![t] =
                      IF size < current_usage THEN size ELSE current_usage]
  /\ mem_pc' = [mem_pc EXCEPT ![t] = "sub"]
  /\ mem_calls' = mem_calls + 1
  /\ UNCHANGED <<mem_on, current_usage, mem_result>>
  /\ UNCHANGED memOthers

\* The fetch_sub of deallocate (it wraps).
MemDeallocateSub(t) ==
  /\ mem_pc[t] = "sub"
  /\ current_usage' =
       (current_usage + Pow2(UsizeBits) - mem_size[t]) % Pow2(UsizeBits)
  /\ mem_pc' = [mem_pc EXCEPT ![t] = "idle"]
  /\ UNCHANGED <<mem_on, mem_size, mem_result, mem_calls>>
  /\ UNCHANGED memOthers

MemNext ==
  \E t \in MemThreads :
    \/ MemAllocateCheck(t)
    \/ MemAllocateAdd(t)
    \/ MemDeallocateLoad(t)
    \/ MemDeallocateSub(t)

SpecMem == MemInit /\ [][MemNext]_vars

(* ----------------- properties of compute_single_edge_path -------------- *)
RouteSpan == Abs(rt_target.layer - rt_source.layer)
RouteStraight ==
  ~rt_options.use_polylines \/ RouteSpan < rt_options.polyline_threshold

\* C34 as stated: 2 points when the span is below the threshold or
\* polylines are disabled, and otherwise span - 1 intermediate waypoints,
\* span + 1 points in all.
C34_AsStated ==
  rt_pc = "done" =>
    IF RouteStraight THEN Len(rt_path) = 2
    ELSE Len(rt_path) = RouteSpan + 1

\* C34: 2 points when the span is below the threshold or polylines are
\* disabled; otherwise the two anchors and span - 1 intermediate waypoints
\* when the span is at least 1, and the two anchors alone when the span is
\* 0 (a threshold of 0 or less).
C34_RoutingThreshold ==
  rt_pc = "done" =>
    /\ Len(rt_path) = IF RouteStraight \/ RouteSpan = 0 THEN 2
                      ELSE RouteSpan + 1
    /\ rt_path[1] = Point(rt_source.x + rt_config.block_width,
                          rt_source.y + rt_config.block_height \div 2, 1)
    /\ rt_path[Len(rt_path)] =
         Point(rt_target.x, rt_target.y + rt_config.block_height \div 2, 1)

\* A polyline over three layers at a threshold of three: two intermediate
\* waypoints.
C34_Witness ==
  /\ rt_pc = "done"
  /\ rt_options.use_polylines
  /\ RouteSpan = 3
  /\ rt_options.polyline_threshold = 3
  /\ Len(rt_path) = 4

(* --------------------- properties of MemoryManager --------------------- *)
\* C40: when several threads call allocate and deallocate concurrently,
\* current_usage never exceeds memory_limit.
C40_UsageWithinLimit == current_usage <= MemoryLimit

\* Two allocate calls and no other call: each of them passed can_allocate
\* before the other's fetch_add, both returned Ok, and current_usage is
\* above the limit.
C40_Witness ==
  /\ mem_on
  /\ mem_calls = 2
  /\ \A t \in MemThreads : mem_pc[t] = "idle" /\ mem_result[t] = "ok"
  /\ current_usage > MemoryLimit

=============================================================================
